---------------------------- MODULE Spec2Model ----------------------------
(***************************************************************************)
(* A model of the FRI-based one-to-many folding proof and the AVSS dealer  *)
(* and party built on it (repository avss-akdg).                            *)
(*                                                                         *)
(* Sequences are 1-based here and 0-based in the source: index i of the    *)
(* source is position i + 1 of the sequence that models the vector.        *)
(***************************************************************************)
EXTENDS Integers, Sequences, FiniteSets, TLC

(***************************************************************************)
(* Bounds of the model.                                                     *)
(***************************************************************************)
\* The field capability is instantiated with the Fermat prime
\* 2^(2^FermatExp) + 1, whose multiplicative group is a 2-group.
FermatExp == 3

(***************************************************************************)
(* Field capability (src/src/algebra/field).                                *)
(***************************************************************************)
MOD == 2 ^ (2 ^ FermatExp) + 1

LOG_MAX_DEGREE == 2 ^ FermatExp

\* 3 generates the multiplicative group of every Fermat prime above 3.
ROOT_OF_UNITY == 3

Add(a, b) == (a + b) % MOD

Sub(a, b) == (a + MOD - b) % MOD

Neg(a) == (MOD - a) % MOD

Mul(a, b) == (a * b) % MOD

RECURSIVE PowLoop(_, _, _)
PowLoop(ret, base, n) ==
    IF n = 0 THEN ret
    ELSE PowLoop(IF n % 2 = 1 THEN Mul(ret, base) ELSE ret, Mul(base, base), n \div 2)

Pow(x, n) == PowLoop(1, x, n)

\* Fp64::inverse agrees with pow(MOD - 2) (test inverse_and_pow); both map 0 to 0.
Inverse(x) == Pow(x, MOD - 2)

IsPowerOfTwo(n) == n \in {2 ^ k : k \in 0..LOG_MAX_DEGREE}

RECURSIVE GeneratorLoop(_, _, _)
GeneratorLoop(res, i, order) ==
    IF i > order THEN GeneratorLoop(Mul(res, res), i \div 2, order) ELSE res

\* Defined for the orders the code accepts; any other order panics.
GetGenerator(order) == GeneratorLoop(ROOT_OF_UNITY, 2 ^ LOG_MAX_DEGREE, order)

(***************************************************************************)
(* Radix-2 domain and coset (src/src/algebra/coset.rs,                      *)
(* src/util/src/algebra/coset.rs).                                          *)
(***************************************************************************)
RECURSIVE Log2(_)
Log2(n) == IF n <= 1 THEN 0 ELSE 1 + Log2(n \div 2)

RECURSIVE BitReverseLoop(_, _, _)
BitReverseLoop(x, r, len) ==
    IF len = 0 THEN r ELSE BitReverseLoop(x \div 2, 2 * r + (x % 2), len - 1)

BitReverse(x, len) == BitReverseLoop(x, 0, len)

\* The swap loop of _fft: position i and its bit-reversed rank trade places once.
BitReversePermute(a) ==
    LET n == Len(a)
        bits == Log2(n)
    IN [i \in 1..n |-> a[BitReverse(i - 1, bits) + 1]]

\* One pass of the butterfly loop with half-width m.
ButterflyStage(a, m, omega) ==
    LET n == Len(a)
        w_m == Pow(omega, n \div (m * 2))
    IN [i \in 1..n |->
          LET k == (i - 1) % m
              w == Pow(w_m, k)
          IN IF (i - 1) % (2 * m) < m
             THEN Add(a[i], Mul(w, a[i + m]))
             ELSE Sub(a[i - m], Mul(w, a[i]))]

RECURSIVE ButterflyLoop(_, _, _)
ButterflyLoop(a, m, omega) ==
    IF m >= Len(a) THEN a ELSE ButterflyLoop(ButterflyStage(a, m, omega), m * 2, omega)

FftCore(a, omega) == ButterflyLoop(BitReversePermute(a), 1, omega)

\* Every entry multiplied by the shift itself instead of its powers.
MultiplyByShift(a, shift) == [i \in 1..Len(a) |-> Mul(a[i], shift)]

MultiplyByCoset(a, shift) == [i \in 1..Len(a) |-> Mul(a[i], Pow(shift, i - 1))]

DomainFft(order, omega, a) == FftCore(a, omega)

\* The inverse transform without the division by the order.
DomainIfftUnscaled(order, omega, a) == FftCore(a, Inverse(omega))

DomainIfft(order, omega, a) ==
    LET b == FftCore(a, Inverse(omega))
        t == Inverse(order % MOD)
    IN [i \in 1..Len(b) |-> Mul(b[i], t)]

DomainCosetFft(order, omega, a, shift) == DomainFft(order, omega, MultiplyByCoset(a, shift))

DomainCosetIfft(order, omega, a, shift) ==
    MultiplyByCoset(DomainIfft(order, omega, a), Inverse(shift))

CosetNew(order, shift) == [order |-> order, omega |-> GetGenerator(order), shift |-> shift]

\* index & -index: the lowest set bit, 0 for index 0.
RECURSIVE LowBit(_)
LowBit(index) ==
    IF index = 0 THEN 0 ELSE IF index % 2 = 1 THEN 1 ELSE 2 * LowBit(index \div 2)

CosetPow(c, index) ==
    [order |-> c.order \div LowBit(index),
     omega |-> Pow(c.omega, index),
     shift |-> Pow(c.shift, index)]

ElementAt(c, index) == Mul(c.shift, Pow(c.omega, index))

ElementInvAt(c, index) == Mul(Inverse(c.shift), Pow(Pow(c.omega, c.order - 1), index))

AllElements(c) == [i \in 1..c.order |-> ElementAt(c, i - 1)]

PadZero(coeff, n) == [i \in 1..n |-> IF i <= Len(coeff) THEN coeff[i] ELSE 0]

\* An fft that accepts a vector of any length.
CosetFftNeverPanics(c, coeff) == FALSE

\* Coset::fft: `assert!(self.size() >= coeff.len())`; in src/util the subtraction
\* `self.size() - coeff.len()` overflows instead.  Either way a longer vector aborts.
CosetFftPanics(c, coeff) == Len(coeff) > c.order

\* Coset::ifft: a vector of one element is returned before any check; any other
\* length is held against the order by assert_eq!.
CosetIfftPanics(c, evals) == Len(evals) # 1 /\ Len(evals) # c.order

\* Coset::fft pads the coefficients with zeros up to the order of the coset.
CosetFft(c, coeff) == DomainCosetFft(c.order, c.omega, PadZero(coeff, c.order), c.shift)

CosetIfft(c, evals) ==
    IF Len(evals) = 1 THEN evals
    ELSE DomainCosetIfft(c.order, c.omega, evals, c.shift)


(***************************************************************************)
(* Polynomials (src/src/algebra/polynomial.rs).                             *)
(***************************************************************************)
AllZero(coefficients) == \A i \in 1..Len(coefficients) : coefficients[i] = 0

RECURSIVE TrimTrailingZeros(_)
TrimTrailingZeros(coefficients) ==
    IF Len(coefficients) > 0 /\ coefficients[Len(coefficients)] = 0
    THEN TrimTrailingZeros(SubSeq(coefficients, 1, Len(coefficients) - 1))
    ELSE coefficients

\* Polynomial::new pops trailing zeros while `*coefficients.last().unwrap() == zero`:
\* once every coefficient has been popped, last() is None and the unwrap panics.
PolynomialNewPanics(coefficients) == AllZero(coefficients)

PolynomialNew(coefficients) == TrimTrailingZeros(coefficients)

Degree(poly) == IF Len(poly) = 0 THEN 0 ELSE Len(poly) - 1

RECURSIVE HornerLoop(_, _, _)
HornerLoop(coefficients, x, i) ==
    IF i > Len(coefficients) THEN 0
    ELSE Add(coefficients[i], Mul(x, HornerLoop(coefficients, x, i + 1)))

EvaluationAt(poly, x) == HornerLoop(poly, x, 1)

EvaluateAsPolynomial(poly, point) == HornerLoop(poly, point, 1)

\* Folding that pairs the two halves of the vector instead of neighbours.
FoldingHalves(poly, parameter) ==
    [i \in 1..(Len(poly) \div 2) |->
        Add(poly[i], Mul(parameter, poly[i + Len(poly) \div 2]))]

Folding(poly, parameter) ==
    [i \in 1..(Len(poly) \div 2) |-> Add(poly[2 * i - 1], Mul(parameter, poly[2 * i]))]

VariableNum(poly) == Log2(Len(poly))

\* One pass of evaluate's outer loop, for coordinate number index (0-based).
EvaluatePass(res, coeff, index) ==
    [i \in 1..Len(res) |->
        IF (i - 1) % (2 ^ (index + 1)) = 0
        THEN Add(res[i], Mul(coeff, res[i + 2 ^ index]))
        ELSE res[i]]

RECURSIVE EvaluateLoop(_, _, _)
EvaluateLoop(res, point, index) ==
    IF index >= Len(point) THEN res
    ELSE EvaluateLoop(EvaluatePass(res, point[index + 1], index), point, index + 1)

Evaluate(poly, point) == EvaluateLoop(poly, point, 0)[1]

(***************************************************************************)
(* split_n (src/src/util.rs).                                               *)
(***************************************************************************)
RECURSIVE SplitLoop(_, _, _)
SplitLoop(res, i, n) ==
    IF i < n THEN SplitLoop(Append(res, i), i * 2, n - i)
    ELSE IF n > 0 THEN Append(res, n) ELSE res

RECURSIVE TrailingZeros(_)
TrailingZeros(x) == IF x = 0 THEN 64 ELSE IF x % 2 = 1 THEN 0 ELSE 1 + TrailingZeros(x \div 2)

\* Stable insertion of x into a sequence ordered by descending trailing_zeros.
RECURSIVE InsertByTz(_, _)
InsertByTz(sorted, x) ==
    IF Len(sorted) = 0 THEN <<x>>
    ELSE IF TrailingZeros(sorted[Len(sorted)]) >= TrailingZeros(x) THEN Append(sorted, x)
    ELSE Append(InsertByTz(SubSeq(sorted, 1, Len(sorted) - 1), x), sorted[Len(sorted)])

RECURSIVE SortByTz(_, _)
SortByTz(res, k) == IF k = 0 THEN <<>> ELSE InsertByTz(SortByTz(res, k - 1), res[k])

\* split_n without the final sort_by.
split_n_unsorted(n) == SplitLoop(<<>>, 1, n)

split_n(n) == LET res == SplitLoop(<<>>, 1, n) IN SortByTz(res, Len(res))

(***************************************************************************)
(* Merkle commitment (src/src/merkle_tree.rs).  The hash capability is      *)
(* collision-free: a digest is the term it was computed from, a leaf digest *)
(* a 1-tuple and a node digest a pair.                                      *)
(***************************************************************************)
\* Bytes of one field element: fixed width, little-endian.
ByteWidth == (2 ^ FermatExp) \div 8 + 1

AsBytes(x) == [k \in 1..ByteWidth |-> (x \div (256 ^ (k - 1))) % 256]

RECURSIVE AsBytesVec(_)
AsBytesVec(elements) ==
    IF Len(elements) = 0 THEN <<>>
    ELSE AsBytes(elements[1]) \o AsBytesVec(SubSeq(elements, 2, Len(elements)))

\* A hash under which all leaves collide.
HashLeafColliding(data) == <<0>>

HashLeaf(data) == <<data>>

HashNode(left, right) == <<left, right>>

RECURSIVE SortedSeq(_)
SortedSeq(S) ==
    IF S = {} THEN <<>>
    ELSE LET m == CHOOSE x \in S : \A y \in S : x <= y
         IN <<m>> \o SortedSeq(S \ {m})

SeqRange(q) == {q[k] : k \in 1..Len(q)}

\* A layer's nodes are paired left to right; an unpaired last node moves up as it is.
NextLayer(layer) ==
    [i \in 1..((Len(layer) + 1) \div 2) |->
        IF 2 * i <= Len(layer) THEN HashNode(layer[2 * i - 1], layer[2 * i])
        ELSE layer[2 * i - 1]]

RECURSIVE LayerRoot(_)
LayerRoot(layer) == IF Len(layer) = 1 THEN layer[1] ELSE LayerRoot(NextLayer(layer))

Sibling(i) == IF i % 2 = 0 THEN i + 1 ELSE i - 1

\* The nodes of a layer a proof has to supply: siblings of known nodes not known themselves.
HelperIndices(known, count) == ({Sibling(i) : i \in known} \ known) \cap (0..(count - 1))

MerkleTreeProverNew(leaf_values) == [i \in 1..Len(leaf_values) |-> HashLeaf(leaf_values[i])]

MerkleCommit(merkle_tree) == LayerRoot(merkle_tree)

RECURSIVE OpenLoop(_, _)
OpenLoop(layer, known) ==
    IF Len(layer) <= 1 THEN <<>>
    ELSE LET helpers == SortedSeq(HelperIndices(known, Len(layer)))
         IN [k \in 1..Len(helpers) |-> layer[helpers[k] + 1]]
            \o OpenLoop(NextLayer(layer), {i \div 2 : i \in known})

MerkleOpen(merkle_tree, leaf_indices) == OpenLoop(merkle_tree, SeqRange(leaf_indices))

\* Rebuilds the root from the opened nodes (known: index -> digest) and the proof.
\* The result is <<digest>>, or <<>> when the proof does not fit the opening.
RECURSIVE RootFromProof(_, _, _)
RootFromProof(known, count, proof) ==
    IF count <= 1
    THEN IF Len(proof) = 0 /\ 0 \in DOMAIN known THEN <<known[0]>> ELSE <<>>
    ELSE LET helpers == SortedSeq(HelperIndices(DOMAIN known, count))
             h == Len(helpers)
         IN IF Len(proof) < h THEN <<>>
            ELSE LET node(i) == IF i \in DOMAIN known THEN known[i]
                                ELSE proof[CHOOSE k \in 1..h : helpers[k] = i]
                     parents == {i \div 2 : i \in DOMAIN known}
                     up == [q \in parents |->
                              IF 2 * q + 1 < count THEN HashNode(node(2 * q), node(2 * q + 1))
                              ELSE node(2 * q)]
                 IN RootFromProof(up, (count + 1) \div 2, SubSeq(proof, h + 1, Len(proof)))

MerkleVerify(mv, proof_bytes, indices, leaves) ==
    LET hashes == [k \in 1..Len(leaves) |-> HashLeaf(leaves[k])]
        known == [i \in SeqRange(indices) |-> hashes[CHOOSE k \in 1..Len(indices) : indices[k] = i]]
    IN /\ Len(indices) > 0
       /\ \A k \in 1..Len(indices) : indices[k] < mv.leave_number
       /\ RootFromProof(known, mv.leave_number, proof_bytes) = <<mv.merkle_root>>

(***************************************************************************)
(* QueryResult (src/src/util.rs).                                           *)
(***************************************************************************)
HasKey(proof_values, k) == k \in DOMAIN proof_values

QueryLeaves(qr, leaf_indices, mv) ==
    [k \in 1..Len(leaf_indices) |->
        AsBytesVec(<<qr.proof_values[leaf_indices[k]],
                     qr.proof_values[leaf_indices[k] + mv.leave_number]>>)]

\* verify_merkle_tree asserts the verification result, and unwraps each looked-up
\* value: it either returns true or panics.
VerifyMerkleTreePanics(qr, leaf_indices, mv) ==
    \/ \E k \in 1..Len(leaf_indices) :
          \/ ~HasKey(qr.proof_values, leaf_indices[k])
          \/ ~HasKey(qr.proof_values, leaf_indices[k] + mv.leave_number)
    \/ ~MerkleVerify(mv, qr.proof_bytes, leaf_indices, QueryLeaves(qr, leaf_indices, mv))

(***************************************************************************)
(* One-to-many prover (src/avss/src/one2many/prover.rs).                    *)
(***************************************************************************)
InterpolateValueNew(value) ==
    LET len == Len(value) \div 2
    IN [value |-> value,
        merkle_tree |-> MerkleTreeProverNew(
            [i \in 1..len |-> AsBytesVec(<<value[i], value[i + len]>>)])]

LeaveNum(iv) == Len(iv.merkle_tree)

Commit(iv) == MerkleCommit(iv.merkle_tree)

\* A query that opens each index without its mirror in the upper half.
InterpolateQueryLower(iv, leaf_indices) ==
    [proof_bytes |-> MerkleOpen(iv.merkle_tree, leaf_indices),
     proof_values |-> [k \in SeqRange(leaf_indices) |-> iv.value[k + 1]]]

InterpolateQuery(iv, leaf_indices) ==
    LET len == LeaveNum(iv)
        keys == SeqRange(leaf_indices) \cup {j + len : j \in SeqRange(leaf_indices)}
    IN [proof_bytes |-> MerkleOpen(iv.merkle_tree, leaf_indices),
        proof_values |-> [k \in keys |-> iv.value[k + 1]]]

\* A get_interpolation that hands every index the first lane.
GetInterpolationFirst(interpolates, index) == interpolates[1]

\* CosetInterpolate::get_interpolation; the lane count is asserted a power of two.
GetInterpolation(interpolates, index) == interpolates[(index % Len(interpolates)) + 1]

\* A field_size that reports half of the lane's length.
FieldSizeHalf(interpolates) == Len(interpolates[1].value) \div 2

FieldSize(interpolates) == Len(interpolates[1].value)

One2ManyProverNew(total_round, interpolate_coset, functions, oracle) ==
    [total_round |-> total_round,
     interpolate_cosets |-> interpolate_coset,
     functions |-> [i \in 1..Len(functions) |->
                      [j \in 1..Len(functions[i]) |-> InterpolateValueNew(functions[i][j])]],
     foldings |-> <<>>,
     oracle |-> oracle,
     final_value |-> <<>>]

\* The fold of one pair of opened values: (x + nx) + challenge * (x - nx) * inv.
FoldPair(x, nx, challenge, inv) == Add(Add(x, nx), Mul(Mul(challenge, Sub(x, nx)), inv))

\* Rounds after the first absorb the round's function into the folded value.
RollPair(v, x, nx, challenge, inv) ==
    Add(Mul(Add(Mul(v, challenge), Add(x, nx)), challenge), Mul(Sub(x, nx), inv))

\* A fold that always reads the first lane of the previous round.
EvaluationFromFirstLane(prover, round, rolling_function_index, challenge) ==
    LET len == FieldSize(prover.functions[round + 1])
        get_folding_value ==
            IF round = 0 THEN GetInterpolation(prover.functions[round + 1], 0)
            ELSE GetInterpolation(prover.foldings[round], 0)
        coset == prover.interpolate_cosets[round + 1]
        fv == prover.functions[round + 1][rolling_function_index + 1]
    IN [k \in 1..(len \div 2) |->
          LET inv == ElementInvAt(coset, k - 1)
              new_v == FoldPair(get_folding_value.value[k],
                                get_folding_value.value[k + len \div 2], challenge, inv)
          IN IF round = 0 THEN new_v
             ELSE RollPair(new_v, fv.value[k], fv.value[k + len \div 2], challenge, inv)]

EvaluationNextDomain(prover, round, rolling_function_index, challenge) ==
    LET len == FieldSize(prover.functions[round + 1])
        get_folding_value ==
            IF round = 0
            THEN GetInterpolation(prover.functions[round + 1], rolling_function_index)
            ELSE GetInterpolation(prover.foldings[round], rolling_function_index)
        coset == prover.interpolate_cosets[round + 1]
        fv == prover.functions[round + 1][rolling_function_index + 1]
    IN [k \in 1..(len \div 2) |->
          LET inv == ElementInvAt(coset, k - 1)
              new_v == FoldPair(get_folding_value.value[k],
                                get_folding_value.value[k + len \div 2], challenge, inv)
          IN IF round = 0 THEN new_v
             ELSE RollPair(new_v, fv.value[k], fv.value[k + len \div 2], challenge, inv)]

\* One iteration of prove's loop over the rounds; the last round interpolates the
\* folded vectors into the final polynomials.
ProveRound(prover, i) ==
    LET challenge == prover.oracle.folding_challenges[i + 1]
        lanes == Len(prover.functions[i + 1])
        next == [j \in 1..lanes |-> EvaluationNextDomain(prover, i, j - 1, challenge)]
    IN IF i < prover.total_round - 1
       THEN [prover EXCEPT !.foldings =
                Append(@, [j \in 1..lanes |-> InterpolateValueNew(next[j])])]
       ELSE [prover EXCEPT !.final_value =
                [j \in 1..lanes |->
                    PolynomialNew(CosetIfft(prover.interpolate_cosets[i + 2], next[j]))]]

ProveRoundPanics(prover, i) ==
    /\ i = prover.total_round - 1
    /\ \E j \in 1..Len(prover.functions[i + 1]) :
          PolynomialNewPanics(CosetIfft(prover.interpolate_cosets[i + 2],
              EvaluationNextDomain(prover, i, j - 1, prover.oracle.folding_challenges[i + 1])))

RECURSIVE ProveLoop(_, _)
ProveLoop(prover, i) ==
    IF i >= prover.total_round THEN prover ELSE ProveLoop(ProveRound(prover, i), i + 1)

RECURSIVE ProvePanicsFrom(_, _)
ProvePanicsFrom(prover, i) ==
    /\ i < prover.total_round
    /\ \/ ProveRoundPanics(prover, i)
       \/ ProvePanicsFrom(ProveRound(prover, i), i + 1)

\* The index list of a round: the previous list modulo half the domain, sorted, deduplicated.
ReduceIndices(leaf_indices, domain_size) ==
    SortedSeq({v % (domain_size \div 2) : v \in SeqRange(leaf_indices)})

RECURSIVE RoundIndices(_, _, _)
RoundIndices(query_list, sizes, i) ==
    ReduceIndices(IF i = 0 THEN query_list ELSE RoundIndices(query_list, sizes, i - 1),
                  sizes[i + 1])

ProverQuery(prover) ==
    LET sizes == [i \in 1..prover.total_round |-> FieldSize(prover.functions[i])]
        idx(i) == RoundIndices(prover.oracle.query_list, sizes, i)
    IN [folding_res |->
           [i \in 1..(prover.total_round - 1) |->
               [j \in 1..Len(prover.foldings[i]) |->
                   InterpolateQuery(prover.foldings[i][j], idx(i))]],
        functions_res |->
           [i \in 1..prover.total_round |->
               IF i = 1
               THEN <<InterpolateQuery(GetInterpolation(prover.functions[1], 0), idx(0))>>
               ELSE [j \in 1..Len(prover.functions[i]) |->
                        InterpolateQuery(prover.functions[i][j], idx(i - 1))]]]

(***************************************************************************)
(* One-to-many verifier (src/vss/src/one2many/verifier.rs).  A call is the  *)
(* record [v, folding_proofs, function_proofs, has_extra,                   *)
(* extra_folding_param, extra_final_poly]; its outcome is "true", "false"   *)
(* or "panic".                                                              *)
(***************************************************************************)
One2ManyVerifierNew(total_round, log_max_degree, coset, oracle) ==
    [total_round |-> total_round,
     log_max_degree |-> log_max_degree,
     interpolate_cosets |-> coset,
     function_root |-> <<>>,
     folding_root |-> <<>>,
     oracle |-> oracle,
     final_value |-> <<>>]

SetFunction(v, leave_number, function_root) ==
    [v EXCEPT !.function_root =
        Append(@, [merkle_root |-> function_root, leave_number |-> leave_number])]

ReceiveFoldingRoot(v, leave_number, folding_root) ==
    [v EXCEPT !.folding_root =
        Append(@, [leave_number |-> leave_number, merkle_root |-> folding_root])]

SetFinalValuePanics(v, value) == ~(Degree(value) <= 2 ^ (v.log_max_degree - v.total_round))

SetFinalValue(v, value) == [v EXCEPT !.final_value = <<value>>]

\* The value round i recomputes at index j from the opened pairs, under a challenge.
FoldReplay(call, i, j, challenge) ==
    LET half == call.v.interpolate_cosets[i + 1].order \div 2
        inv == ElementInvAt(call.v.interpolate_cosets[i + 1], j)
        get_folding_value == IF i = 0 THEN call.function_proofs[1].proof_values
                             ELSE call.folding_proofs[i].proof_values
        function_values == call.function_proofs[i + 1].proof_values
        v0 == FoldPair(get_folding_value[j], get_folding_value[j + half], challenge, inv)
    IN IF i # 0
       THEN RollPair(v0, function_values[j], function_values[j + half], challenge, inv)
       ELSE v0

\* The fold check left out.
FoldCheckSkipped(call, i, j) == "ok"

\* The standard check of round i at index j: "ok", "false", or "panic" on a missing key.
FoldCheck(call, i, j) ==
    LET v == call.v
        half == v.interpolate_cosets[i + 1].order \div 2
        get_folding_value == IF i = 0 THEN call.function_proofs[1].proof_values
                             ELSE call.folding_proofs[i].proof_values
        function_values == call.function_proofs[i + 1].proof_values
        last == (i = v.total_round - 1)
    IN IF \/ ~HasKey(get_folding_value, j) \/ ~HasKey(get_folding_value, j + half)
          \/ (i # 0 /\ (~HasKey(function_values, j) \/ ~HasKey(function_values, j + half)))
          \/ (i # 0 /\ last /\ Len(v.final_value) = 0)
          \/ (~(i # 0 /\ last) /\ ~HasKey(call.folding_proofs[i + 1].proof_values, j))
       THEN "panic"
       ELSE LET expected ==
                    IF i # 0 /\ last
                    THEN EvaluationAt(v.final_value[1],
                                      ElementAt(v.interpolate_cosets[i + 2], j))
                    ELSE call.folding_proofs[i + 1].proof_values[j]
            IN IF FoldReplay(call, i, j, v.oracle.folding_challenges[i + 1]) # expected
               THEN "false" ELSE "ok"

\* What the extra check compares: the party's fold of its opened function pair, and
\* twice the value it must land on.
ExtraFolded(call, i, j) ==
    LET half == call.v.interpolate_cosets[i + 1].order \div 2
        values == call.function_proofs[i + 1].proof_values
    IN FoldPair(values[j], values[j + half], call.extra_folding_param[i + 1],
                ElementInvAt(call.v.interpolate_cosets[i + 1], j))

ExtraExpected(call, i, j) ==
    IF i < call.v.total_round - 1
    THEN Mul(call.function_proofs[i + 2].proof_values[j], 2)
    ELSE Mul(EvaluateAsPolynomial(call.extra_final_poly,
                                  ElementAt(call.v.interpolate_cosets[i + 2], j)), 2)

\* The extra check left out.
ExtraCheckSkipped(call, i, j) == "ok"

\* The extra check is an assert_eq!: it passes or panics.
ExtraCheck(call, i, j) ==
    LET half == call.v.interpolate_cosets[i + 1].order \div 2
        values == call.function_proofs[i + 1].proof_values
    IN IF \/ ~HasKey(values, j) \/ ~HasKey(values, j + half)
          \/ (i < call.v.total_round - 1
              /\ ~HasKey(call.function_proofs[i + 2].proof_values, j))
       THEN "panic"
       ELSE IF ExtraFolded(call, i, j) = ExtraExpected(call, i, j) THEN "ok" ELSE "panic"

IndexCheck(call, i, j) ==
    LET fold == FoldCheck(call, i, j)
    IN IF fold # "ok" THEN fold
       ELSE IF call.has_extra THEN ExtraCheck(call, i, j) ELSE "ok"

RECURSIVE IndexLoop(_, _, _, _)
IndexLoop(call, i, leaf_indices, k) ==
    IF k > Len(leaf_indices) THEN "ok"
    ELSE LET r == IndexCheck(call, i, leaf_indices[k])
         IN IF r = "ok" THEN IndexLoop(call, i, leaf_indices, k + 1) ELSE r

RoundMerklePanics(call, i, leaf_indices) ==
    \/ /\ i = 0
       /\ VerifyMerkleTreePanics(call.function_proofs[1], leaf_indices,
                                 call.v.function_root[1])
    \/ /\ i # 0
       /\ \/ VerifyMerkleTreePanics(call.folding_proofs[i], leaf_indices,
                                    call.v.folding_root[i])
          \/ VerifyMerkleTreePanics(call.function_proofs[i + 1], leaf_indices,
                                    call.v.function_root[i + 1])

RECURSIVE RoundLoop(_, _, _)
RoundLoop(call, i, prev_indices) ==
    IF i >= call.v.total_round THEN "true"
    ELSE LET leaf_indices == ReduceIndices(prev_indices, call.v.interpolate_cosets[i + 1].order)
         IN IF RoundMerklePanics(call, i, leaf_indices) THEN "panic"
            ELSE LET r == IndexLoop(call, i, leaf_indices, 1)
                 IN IF r = "ok" THEN RoundLoop(call, i + 1, leaf_indices) ELSE r

VerifyBothCondition(call) == RoundLoop(call, 0, call.v.oracle.query_list)

VerifyWithExtraFolding(v, folding_proofs, function_proofs, param, poly) ==
    VerifyBothCondition([v |-> v, folding_proofs |-> folding_proofs,
                         function_proofs |-> function_proofs, has_extra |-> TRUE,
                         extra_folding_param |-> param,
                         extra_final_poly |-> poly])

(***************************************************************************)
(* AVSS party (src/vss/src/avss/party.rs) and dealer.                       *)
(***************************************************************************)
AvssPartyNew(total_round, interpolate_coset, open_point, oracle) ==
    [verifier |-> One2ManyVerifierNew(total_round, Len(open_point), interpolate_coset, oracle),
     open_point |-> open_point,
     final_poly |-> <<>>]

Share(party) ==
    LET poly == party.final_poly[1]
        variable_num == VariableNum(poly)
        n == Len(party.open_point)
    IN Evaluate(poly, SubSeq(party.open_point, n - variable_num + 1, n))

SetShare(party, final_poly) == [party EXCEPT !.final_poly = <<final_poly>>]

PartyVerify(party, folding_proofs, function_proofs) ==
    VerifyWithExtraFolding(party.verifier, folding_proofs, function_proofs,
                           party.open_point, party.final_poly[1])

\* batch_folding that takes the parent lane by dividing instead of reducing the index.
RECURSIVE BatchFoldingLoopDiv(_, _, _)
BatchFoldingLoopDiv(res, folding_parameter, round) ==
    IF round > Len(folding_parameter) THEN res
    ELSE BatchFoldingLoopDiv(
            Append(res, [index \in 1..Len(folding_parameter[round]) |->
                           Folding(res[round][(((index - 1) \div 2) % Len(res[round])) + 1],
                                   folding_parameter[round][index])]),
            folding_parameter, round + 1)

RECURSIVE BatchFoldingLoop(_, _, _)
BatchFoldingLoop(res, folding_parameter, round) ==
    IF round > Len(folding_parameter) THEN res
    ELSE BatchFoldingLoop(
            Append(res, [index \in 1..Len(folding_parameter[round]) |->
                           Folding(res[round][((index - 1) % Len(res[round])) + 1],
                                   folding_parameter[round][index])]),
            folding_parameter, round + 1)

BatchFolding(polynomial, folding_parameter) ==
    BatchFoldingLoop(<<<<polynomial>>>>, folding_parameter, 1)

\* Each round's folded secrets, evaluated over that round's coset.
CalculateFunctions(functions, cosets, total_round) ==
    [i \in 1..total_round |->
        [j \in 1..Len(functions[i]) |-> CosetFft(cosets[i], functions[i][j])]]

DealerNew(total_round, polynomial, interpolate_coset, oracle, folding_parameter) ==
    LET functions == BatchFolding(polynomial, SubSeq(folding_parameter, 1, total_round))
    IN [prover |-> One2ManyProverNew(total_round, interpolate_coset,
                      CalculateFunctions(functions, interpolate_coset, total_round), oracle),
        evaluations |-> functions[total_round + 1]]

\* send_evaluations: party i receives the final polynomial of its lane.
SendEvaluations(dealer, parties) ==
    [i \in 1..Len(parties) |->
        SetShare(parties[i], dealer.evaluations[((i - 1) % Len(dealer.evaluations)) + 1])]

CommitFunctionsTo(prover, v, idx) ==
    LET lane(i) == GetInterpolation(prover.functions[i], idx)
    IN [v EXCEPT !.function_root =
          [i \in 1..prover.total_round |->
              [merkle_root |-> Commit(lane(i)), leave_number |-> LeaveNum(lane(i))]]]

CommitFoldingsTo(prover, v, idx) ==
    LET lane(i) == GetInterpolation(prover.foldings[i], idx)
        roots == [i \in 1..(prover.total_round - 1) |->
                    [leave_number |-> LeaveNum(lane(i)), merkle_root |-> Commit(lane(i))]]
    IN SetFinalValue([v EXCEPT !.folding_root = roots],
                     prover.final_value[(idx % Len(prover.final_value)) + 1])

\* A commit_foldings that hands over any final polynomial.
CommitFoldingsNeverPanics(prover, v, idx) == FALSE

CommitFoldingsPanics(prover, v, idx) ==
    SetFinalValuePanics(v, prover.final_value[(idx % Len(prover.final_value)) + 1])

(***************************************************************************)
(* The deal of vss_deal (src/vss/src/lib.rs).                               *)
(***************************************************************************)
log_n == 5

code_rate == 1

terminate_round == 1

log_t == log_n - 1

total_round == log_t - terminate_round

PartyCount == 2 ^ log_n

RECURSIVE CosetLadder(_, _)
CosetLadder(cosets, n) ==
    IF Len(cosets) >= n THEN cosets
    ELSE CosetLadder(Append(cosets, CosetPow(cosets[Len(cosets)], 2)), n)

InterpolateCosets(shift) == CosetLadder(<<CosetNew(2 ^ (log_t + code_rate), shift)>>, log_t)

FoldingParameter(x_shift) ==
    LET coset_x == CosetNew(2 ^ log_n, x_shift)
        v == split_n(2 ^ log_t - 1)
    IN [k \in 1..Len(v) |-> AllElements(CosetPow(coset_x, v[k]))]

OpenPoint(folding_parameter, i) ==
    [j \in 1..log_t |-> folding_parameter[j][(i % Len(folding_parameter[j])) + 1]]

NewParties(cosets, folding_parameter, oracle) ==
    [i \in 1..PartyCount |->
        AvssPartyNew(total_round, cosets, OpenPoint(folding_parameter, i - 1), oracle)]

\* A selection that hands party idx the lane after its own.
SelectProofsNext(query, idx) ==
    [folding |-> [i \in 1..(total_round - 1) |->
                    query.folding_res[i][((idx + 1) % Len(query.folding_res[i])) + 1]],
     function |-> [i \in 1..total_round |->
                    query.functions_res[i][((idx + 1) % Len(query.functions_res[i])) + 1]]]

\* The lane of each round's query results that party idx reads.
SelectProofs(query, idx) ==
    [folding |-> [i \in 1..(total_round - 1) |->
                    query.folding_res[i][(idx % Len(query.folding_res[i])) + 1]],
     function |-> [i \in 1..total_round |->
                    query.functions_res[i][(idx % Len(query.functions_res[i])) + 1]]]

(***************************************************************************)
(* The deal as a state machine.  pc is the driver's position; subject is    *)
(* the party whose verification is followed, proofs the query results it    *)
(* is handed, tamper what was changed before it verified.                   *)
(***************************************************************************)
VARIABLES pc, secret, dealer, parties, query, subject, proofs, tamper, result,
          merkle_case, fft_case, tuple_case, algebra_case, oracle_case, gemini_case

vars == <<pc, secret, dealer, parties, query, subject, proofs, tamper, result,
          merkle_case, fft_case, tuple_case, algebra_case, oracle_case, gemini_case>>

side_vars == <<merkle_case, fft_case, tuple_case, algebra_case, oracle_case, gemini_case>>

NoTamper == [kind |-> "none"]

Deal(polynomial, shift, x_shift, oracle) ==
    LET cosets == InterpolateCosets(shift)
        folding_parameter == FoldingParameter(x_shift)
    IN /\ pc = "new"
       /\ secret = polynomial
       /\ dealer = DealerNew(total_round, polynomial, cosets, oracle, folding_parameter)
       /\ parties = NewParties(cosets, folding_parameter, oracle)
       /\ query = <<>>
       /\ subject = -1
       /\ proofs = <<>>
       /\ tamper = NoTamper
       /\ result = "none"
       /\ merkle_case = <<>>
       /\ fft_case = <<>>
       /\ tuple_case = <<>>
       /\ algebra_case = <<>>
       /\ oracle_case = <<>> /\ gemini_case = <<>>

DoSendEvaluations ==
    /\ pc = "new"
    /\ parties' = SendEvaluations(dealer, parties)
    /\ pc' = "sent"
    /\ UNCHANGED <<secret, dealer, query, subject, proofs, tamper, result, side_vars>>

DoCommitFunctions ==
    /\ pc = "sent"
    /\ parties' = [i \in 1..Len(parties) |->
                     [parties[i] EXCEPT !.verifier = CommitFunctionsTo(dealer.prover, @, i - 1)]]
    /\ pc' = "functions_committed"
    /\ UNCHANGED <<secret, dealer, query, subject, proofs, tamper, result, side_vars>>

\* prove aborts when a lane's final coefficient vector is all zero.
DoProve ==
    /\ pc = "functions_committed"
    /\ IF ProvePanicsFrom(dealer.prover, 0)
       THEN /\ pc' = "aborted"
            /\ result' = "panic"
            /\ UNCHANGED dealer
       ELSE /\ pc' = "proved"
            /\ dealer' = [dealer EXCEPT !.prover = ProveLoop(@, 0)]
            /\ UNCHANGED result
    /\ UNCHANGED <<secret, parties, query, subject, proofs, tamper, side_vars>>

DoCommitFoldings ==
    /\ pc = "proved"
    /\ IF \E i \in 1..Len(parties) : CommitFoldingsPanics(dealer.prover, parties[i].verifier, i - 1)
       THEN /\ pc' = "aborted"
            /\ result' = "panic"
            /\ UNCHANGED parties
       ELSE /\ pc' = "foldings_committed"
            /\ parties' = [i \in 1..Len(parties) |->
                             [parties[i] EXCEPT !.verifier =
                                 CommitFoldingsTo(dealer.prover, @, i - 1)]]
            /\ UNCHANGED result
    /\ UNCHANGED <<secret, dealer, query, subject, proofs, tamper, side_vars>>

DoQuery ==
    /\ pc = "foldings_committed"
    /\ query' = ProverQuery(dealer.prover)
    /\ pc' = "queried"
    /\ UNCHANGED <<secret, dealer, parties, subject, proofs, tamper, result, side_vars>>

\* The driver hands party idx the lanes it reads.
Select(idx) ==
    /\ pc = "queried"
    /\ subject' = idx
    /\ proofs' = SelectProofs(query, idx)
    /\ pc' = "selected"
    /\ UNCHANGED <<secret, dealer, parties, query, tamper, result, side_vars>>

DoVerify ==
    /\ pc = "selected"
    /\ result' = PartyVerify(parties[subject + 1], proofs.folding, proofs.function)
    /\ pc' = "verified"
    /\ UNCHANGED <<secret, dealer, parties, query, subject, proofs, tamper, side_vars>>

\* What the tampering actions may change an opened value, a share coefficient or an
\* open-point coordinate by.
MaxDelta == 1

TamperValue(which, r, k, delta) ==
    /\ pc = "selected"
    /\ tamper = NoTamper
    /\ r \in 1..Len(proofs[which])
    /\ HasKey(proofs[which][r].proof_values, k)
    /\ proofs' = [proofs EXCEPT ![which][r].proof_values[k] = Add(@, delta)]
    /\ tamper' = [kind |-> "value", which |-> which, round |-> r, key |-> k]
    /\ UNCHANGED <<pc, secret, dealer, parties, query, subject, result, side_vars>>

TamperShare(k, delta) ==
    /\ pc = "selected"
    /\ tamper = NoTamper
    /\ k \in 1..Len(parties[subject + 1].final_poly[1])
    /\ parties' = [parties EXCEPT ![subject + 1].final_poly[1][k] = Add(@, delta)]
    /\ tamper' = [kind |-> "share", coefficient |-> k]
    /\ UNCHANGED <<pc, secret, dealer, query, subject, proofs, result, side_vars>>

TamperOpenPoint(k, delta) ==
    /\ pc = "selected"
    /\ tamper = NoTamper
    /\ parties' = [parties EXCEPT ![subject + 1].open_point[k] = Add(@, delta)]
    /\ tamper' = [kind |-> "open_point", coordinate |-> k]
    /\ UNCHANGED <<pc, secret, dealer, query, subject, proofs, result, side_vars>>

\* The subject's copy of the oracle gets another challenge for round r (1-based).
MutateChallenge(r, c) ==
    /\ pc = "selected"
    /\ tamper = NoTamper
    /\ parties[subject + 1].verifier.oracle.folding_challenges[r] # c
    /\ parties' = [parties EXCEPT ![subject + 1].verifier.oracle.folding_challenges[r] = c]
    /\ tamper' = [kind |-> "challenge", round |-> r,
                  original |-> parties[subject + 1].verifier.oracle.folding_challenges[r]]
    /\ UNCHANGED <<pc, secret, dealer, query, subject, proofs, result, side_vars>>

(***************************************************************************)
(* Inputs of the deal.                                                      *)
(***************************************************************************)
ZeroSecret == [i \in 1..(2 ^ log_t) |-> 0]

ConstantSecret == [i \in 1..(2 ^ log_t) |-> IF i = 1 THEN 7 ELSE 0]

LinearSecret == [i \in 1..(2 ^ log_t) |-> i]

SquareSecret == [i \in 1..(2 ^ log_t) |-> (i * i + 3) % MOD]

ZeroChallenges == [i \in 1..total_round |-> 0]

OddChallenges == [i \in 1..total_round |-> 2 * i + 3]

FullQueryList == [i \in 1..(2 ^ (log_t + code_rate - 1)) |-> i - 1]

ShortQueryList == <<3, 40, 3, 21>>

SingleQueryList == <<7>>

Oracles(challenges, queries) ==
    {[folding_challenges |-> c, query_list |-> q] : c \in challenges, q \in queries}

Init ==
    \E polynomial \in {ZeroSecret, ConstantSecret, LinearSecret, SquareSecret},
       shift \in {1, 2},
       oracle \in Oracles({ZeroChallenges, OddChallenges},
                          {FullQueryList, ShortQueryList, SingleQueryList}) :
        Deal(polynomial, shift, 3, oracle)

Next ==
    \/ DoSendEvaluations
    \/ DoCommitFunctions
    \/ DoProve
    \/ DoCommitFoldings
    \/ DoQuery
    \/ \E idx \in 0..(PartyCount - 1) : Select(idx)
    \/ DoVerify

Spec == Init /\ [][Next]_vars

(***************************************************************************)
(* Properties of the honest deal.                                           *)
(***************************************************************************)
\* C1 (completeness): in an honest run, whatever the secret, the coset shift, the
\* challenges and the query list, the deal does not abort and every party's verify,
\* called with the query results of the lanes it reads, returns true.
C1_Completeness == tamper = NoTamper => result \in {"none", "true"}

\* C2 (share correctness): once the dealer has delivered the evaluations, every party's
\* share equals the secret evaluated at the party's complete open point.
C2_ShareCorrectness ==
    pc # "new" =>
        \A i \in 1..Len(parties) : Share(parties[i]) = Evaluate(secret, parties[i].open_point)

\* The evaluations are delivered, and two parties hold different nonzero shares of the secret.
C2_Witness ==
    /\ pc = "sent"
    /\ Share(parties[1]) # 0
    /\ Share(parties[1]) # Share(parties[PartyCount])
    /\ Share(parties[PartyCount]) = Evaluate(secret, parties[PartyCount].open_point)

\* The leaf count and root a verifier should hold for lane idx mod lane_count.
LaneCommitment(interpolates, idx) ==
    LET lane == interpolates[(idx % Len(interpolates)) + 1]
    IN [leave_number |-> Len(lane.value) \div 2, merkle_root |-> LayerRoot(lane.merkle_tree)]

\* C19 (lane assignment): after commit_functions and commit_foldings over all the
\* verifiers, verifier idx holds, for every round i in order, the leaf count and Merkle
\* root of lane idx mod lane_count_i of that round's functions (total_round entries)
\* and foldings (total_round - 1 entries), and the final value of lane
\* idx mod (number of final lanes).
C19_LaneAssignment ==
    pc \in {"foldings_committed", "queried", "selected", "verified"} =>
        \A p \in 1..Len(parties) :
            LET v == parties[p].verifier
                prover == dealer.prover
            IN /\ Len(v.function_root) = total_round
               /\ \A i \in 1..total_round :
                     /\ v.function_root[i].leave_number
                          = LaneCommitment(prover.functions[i], p - 1).leave_number
                     /\ v.function_root[i].merkle_root
                          = LaneCommitment(prover.functions[i], p - 1).merkle_root
               /\ Len(v.folding_root) = total_round - 1
               /\ \A i \in 1..(total_round - 1) :
                     /\ v.folding_root[i].leave_number
                          = LaneCommitment(prover.foldings[i], p - 1).leave_number
                     /\ v.folding_root[i].merkle_root
                          = LaneCommitment(prover.foldings[i], p - 1).merkle_root
               /\ v.final_value
                    = <<prover.final_value[((p - 1) % Len(prover.final_value)) + 1]>>

\* The commitments are delivered; in the last round the first two verifiers hold
\* different roots, and the verifier one lane count further holds the first one's.
C19_Witness ==
    /\ pc = "foldings_committed"
    /\ Len(dealer.prover.functions[total_round]) > 1
    /\ Len(dealer.prover.functions[total_round]) < PartyCount
    /\ parties[1].verifier.function_root[total_round].merkle_root
         # parties[2].verifier.function_root[total_round].merkle_root
    /\ parties[1].verifier.function_root[total_round]
         = parties[Len(dealer.prover.functions[total_round]) + 1].verifier.function_root[total_round]
    /\ parties[1].verifier.final_value # parties[2].verifier.final_value

\* The index list round i (0-based) of verifier v's verify walks.
VerifierIndices(v, i) ==
    RoundIndices(v.oracle.query_list,
                 [r \in 1..v.total_round |-> v.interpolate_cosets[r].order], i)

\* The indices a query result opens below the half of its domain.
OpenedIndices(qr, half) == {k \in DOMAIN qr.proof_values : k < half}

\* C20 (query-index agreement): in every round i, the prover's query opens exactly the
\* index list the verifier's verify derives from the oracle's query list: the previous
\* round's list reduced modulo half of round i's domain size, sorted and deduplicated;
\* every index in it is below size_i / 2 and occurs once.
C20_QueryIndexAgreement ==
    pc \in {"queried", "selected", "verified"} =>
        \A p \in 1..Len(parties), i \in 0..(total_round - 1) :
            LET v == parties[p].verifier
                half == v.interpolate_cosets[i + 1].order \div 2
                list == VerifierIndices(v, i)
                prev == IF i = 0 THEN v.oracle.query_list ELSE VerifierIndices(v, i - 1)
            IN /\ SeqRange(list) = {x % half : x \in SeqRange(prev)}
               /\ \A k \in 1..Len(list) : list[k] < half
               /\ \A k \in 1..(Len(list) - 1) : list[k] < list[k + 1]
               /\ \A lane \in 1..Len(query.functions_res[i + 1]) :
                     /\ OpenedIndices(query.functions_res[i + 1][lane], half) = SeqRange(list)
                     /\ DOMAIN query.functions_res[i + 1][lane].proof_values
                          = SeqRange(list) \cup {j + half : j \in SeqRange(list)}
               /\ i > 0 =>
                     \A lane \in 1..Len(query.folding_res[i]) :
                        DOMAIN query.folding_res[i][lane].proof_values
                          = SeqRange(list) \cup {j + half : j \in SeqRange(list)}

\* A query list with a repeated index and an index beyond the domain has been
\* answered: the first round opens one index fewer than the list has entries, and
\* the opened keys of the last round are those of the reduced list and their mirrors.
C20_Witness ==
    /\ pc = "queried"
    /\ dealer.prover.oracle.query_list = ShortQueryList
    /\ Len(VerifierIndices(parties[1].verifier, 0)) < Len(ShortQueryList)
    /\ VerifierIndices(parties[1].verifier, total_round - 1)
         # VerifierIndices(parties[1].verifier, 0)
    /\ \A j \in SeqRange(VerifierIndices(parties[1].verifier, total_round - 1)) :
          HasKey(query.functions_res[total_round][1].proof_values, j)

\* Every verifier holds what round i commits to: the root of round i's functions
\* and, after the first round, the root of the folding the round's challenge folds.
CommitmentDelivered(i) ==
    \A p \in 1..Len(parties) :
        /\ Len(parties[p].verifier.function_root) > i
        /\ Len(parties[p].verifier.folding_root) >= i

\* Every verifier holds every folding root and the final value.
AllFoldingsDelivered ==
    \A p \in 1..Len(parties) :
        /\ Len(parties[p].verifier.folding_root) = total_round - 1
        /\ parties[p].verifier.final_value # <<>>

\* C21 (strict alternation): a round's folding challenge exists in the oracle only
\* once that round's commitment is at the verifiers, and query indices exist only
\* once every folding commitment and the final value have been delivered.
C21_StrictAlternation ==
    /\ \A i \in 0..(total_round - 1) :
          Len(dealer.prover.oracle.folding_challenges) > i => CommitmentDelivered(i)
    /\ Len(dealer.prover.oracle.query_list) > 0 => AllFoldingsDelivered

(***************************************************************************)
(* The deal with one change made between query and verification.            *)
(***************************************************************************)
InitTamper ==
    \E polynomial \in {LinearSecret, SquareSecret},
       oracle \in Oracles({OddChallenges}, {ShortQueryList, SingleQueryList}) :
        Deal(polynomial, 2, 3, oracle)

NextTamper ==
    \/ Next
    \/ \E which \in {"folding", "function"}, r \in 1..total_round,
          k \in 0..(2 ^ (log_t + code_rate) - 1), delta \in 1..MaxDelta :
            TamperValue(which, r, k, delta)
    \/ \E k \in 1..(2 ^ terminate_round), delta \in 1..MaxDelta : TamperShare(k, delta)
    \/ \E k \in 1..log_t, delta \in 1..MaxDelta : TamperOpenPoint(k, delta)

SpecTamper == InitTamper /\ [][NextTamper]_vars

\* The call the subject's verify makes.
SubjectCall ==
    [v |-> parties[subject + 1].verifier,
     folding_proofs |-> proofs.folding,
     function_proofs |-> proofs.function,
     has_extra |-> TRUE,
     extra_folding_param |-> parties[subject + 1].open_point,
     extra_final_poly |-> parties[subject + 1].final_poly[1]]

\* The indices round i (0-based) of the subject's verify walks.
QueriedIndices(i) ==
    LET v == parties[subject + 1].verifier
    IN RoundIndices(v.oracle.query_list,
                    [r \in 1..v.total_round |-> v.interpolate_cosets[r].order], i)

Rounds == 0..(total_round - 1)

\* The own-share relation at round i, index j.
OwnShareHolds(i, j) ==
    LET half == SubjectCall.v.interpolate_cosets[i + 1].order \div 2
        values == proofs.function[i + 1].proof_values
    IN /\ HasKey(values, j) /\ HasKey(values, j + half)
       /\ i < total_round - 1 => HasKey(proofs.function[i + 2].proof_values, j)
       /\ ExtraFolded(SubjectCall, i, j) = ExtraExpected(SubjectCall, i, j)

MidRoundTamper ==
    /\ tamper.kind = "value"
    /\ \/ tamper.which = "folding"
       \/ tamper.which = "function" /\ tamper.round \notin {1, total_round}

\* C3 (negative scenario): when one opened value of one mid-round query result was
\* changed after query and before verification, the party's verify returns false; it
\* neither aborts nor returns true.
C3_NegativeScenario == (pc = "verified" /\ MidRoundTamper) => result = "false"

\* C4 (own-share soundness): verify returns true only if at every round and every
\* queried index the party's fold of its opened function pair with its own open-point
\* coordinate is twice the next round's opened function value, and in the last round
\* twice its received final polynomial at the next coset's element.
C4_OwnShareSoundness ==
    (pc = "verified" /\ result = "true") =>
        \A i \in Rounds : \A j \in SeqRange(QueriedIndices(i)) : OwnShareHolds(i, j)

\* A verification that returned true although the party's open point had been changed
\* (in a coordinate past the folded rounds): the relation holds at a queried index.
C4_Witness ==
    /\ pc = "verified"
    /\ result = "true"
    /\ tamper.kind = "open_point"
    /\ \E j \in SeqRange(QueriedIndices(total_round - 1)) : OwnShareHolds(total_round - 1, j)

\* C6 (fold or final-value mismatch is a returned rejection): if at some round and
\* queried index the value recomputed by the round's fold equation differs from the
\* next round's opened value (in the last round from the final polynomial's value),
\* verify returns false.
C6_FoldMismatchRejected ==
    (/\ pc = "verified"
     /\ \E i \in Rounds : \E j \in SeqRange(QueriedIndices(i)) :
            FoldCheck(SubjectCall, i, j) = "false")
    => result = "false"

\* C7 (own-share mismatch is a returned rejection): when the received share or the
\* open point is inconsistent with the opened function values, so that the own-share
\* fold check fails at a queried index, verify returns false and does not abort.
C7_OwnShareMismatchRejected ==
    (/\ pc = "verified"
     /\ tamper.kind \in {"share", "open_point"}
     /\ \E i \in Rounds : \E j \in SeqRange(QueriedIndices(i)) : ~OwnShareHolds(i, j))
    => result = "false"

(***************************************************************************)
(* The deal with one lane changed before the driver hands out the query     *)
(* results: an opened value of the lane, and the root held by every         *)
(* verifier that reads the lane.                                            *)
(***************************************************************************)
LaneResults(q, which) == IF which = "folding" THEN q.folding_res ELSE q.functions_res

TamperLane(which, r, lane, k, delta) ==
    /\ pc = "queried"
    /\ tamper = NoTamper
    /\ r \in 1..Len(LaneResults(query, which))
    /\ lane \in 1..Len(LaneResults(query, which)[r])
    /\ HasKey(LaneResults(query, which)[r][lane].proof_values, k)
    /\ query' = IF which = "folding"
                THEN [query EXCEPT !.folding_res[r][lane].proof_values[k] = Add(@, delta)]
                ELSE [query EXCEPT !.functions_res[r][lane].proof_values[k] = Add(@, delta)]
    /\ parties' =
         [p \in 1..Len(parties) |->
            IF ((p - 1) % Len(LaneResults(query, which)[r])) + 1 # lane THEN parties[p]
            ELSE IF which = "folding"
                 THEN [parties[p] EXCEPT
                         !.verifier.folding_root[r].merkle_root = HashNode(@, @)]
                 ELSE [parties[p] EXCEPT
                         !.verifier.function_root[r].merkle_root = HashNode(@, @)]]
    /\ tamper' = [kind |-> "lane", which |-> which, round |-> r, lane |-> lane]
    /\ UNCHANGED <<pc, secret, dealer, subject, proofs, result, side_vars>>

NextLane ==
    \/ Next
    \/ \E which \in {"folding", "function"}, r \in 1..total_round, lane \in 1..PartyCount,
          k \in 0..(2 ^ (log_t + code_rate) - 1), delta \in 1..MaxDelta :
            TamperLane(which, r, lane, k, delta)

SpecLane == InitTamper /\ [][NextLane]_vars

\* The subject reads another lane than the changed one.
OffLane ==
    LET lanes == Len(LaneResults(query, tamper.which)[tamper.round])
    IN (subject % lanes) + 1 # tamper.lane

\* The subject's verify in the run without the change: the query results are the
\* prover's own, and the subject holds what it was sent.
TwinResult ==
    LET q == ProverQuery(dealer.prover)
    IN PartyVerify(parties[subject + 1],
                   [i \in 1..(total_round - 1) |->
                       q.folding_res[i][(subject % Len(q.folding_res[i])) + 1]],
                   [i \in 1..total_round |->
                       q.functions_res[i][(subject % Len(q.functions_res[i])) + 1]])

C27_OpenedKeysSuffice ==
    (pc \in {"selected", "verified"} /\ tamper = NoTamper) =>
        /\ \A i \in Rounds : \A j \in SeqRange(QueriedIndices(i)) :
              LET v == SubjectCall.v
                  half == v.interpolate_cosets[i + 1].order \div 2
                  get_folding_value == IF i = 0 THEN proofs.function[1].proof_values
                                       ELSE proofs.folding[i].proof_values
                  function_values == proofs.function[i + 1].proof_values
              IN /\ HasKey(get_folding_value, j)
                 /\ HasKey(get_folding_value, j + half)
                 /\ HasKey(function_values, j)
                 /\ HasKey(function_values, j + half)
                 /\ i < total_round - 1 =>
                       /\ HasKey(proofs.folding[i + 1].proof_values, j)
                       /\ HasKey(proofs.function[i + 2].proof_values, j)
                 /\ HasKey(function_values, j + v.function_root[i + 1].leave_number)
                 /\ i > 0 => HasKey(get_folding_value, j + v.folding_root[i].leave_number)
        /\ pc = "verified" => result # "panic"

\* A party on a lane other than the first has verified against a query list that
\* reduces to several indices in the first round and to fewer in the last.
C27_Witness ==
    /\ pc = "verified"
    /\ tamper = NoTamper
    /\ subject = PartyCount - 1
    /\ result = "true"
    /\ Len(QueriedIndices(0)) >= 3
    /\ Len(QueriedIndices(total_round - 1)) < Len(QueriedIndices(0))

\* The fold of round `round` computed from a given lane of the previous round and the
\* given lane of the round's functions.
FoldFromLane(prover, round, parent, lane) ==
    LET len == Len(parent.value)
        coset == prover.interpolate_cosets[round + 1]
        challenge == prover.oracle.folding_challenges[round + 1]
        fv == prover.functions[round + 1][lane + 1]
    IN [k \in 1..(len \div 2) |->
          LET inv == ElementInvAt(coset, k - 1)
              new_v == FoldPair(parent.value[k], parent.value[k + len \div 2], challenge, inv)
          IN IF round = 0 THEN new_v
             ELSE RollPair(new_v, fv.value[k], fv.value[k + len \div 2], challenge, inv)]

\* The lane counts of the rounds' functions are powers of two and do not decrease.
LaneCountsOrdered ==
    /\ \A i \in 1..total_round : IsPowerOfTwo(Len(dealer.prover.functions[i]))
    /\ \A i \in 1..(total_round - 1) :
          Len(dealer.prover.functions[i]) <= Len(dealer.prover.functions[i + 1])

\* The folded secrets batch_folding derives from the secret, recovered with the
\* folding parameters the parties hold as open points.
FoldedSecrets ==
    BatchFolding(secret,
                 [r \in 1..total_round |->
                     [l \in 1..(2 ^ (log_n - log_t + r)) |-> parties[l].open_point[r]]])

\* C28 (lane lineage): with power-of-two, non-decreasing lane counts, for every party
\* idx and every round the folding (in the last round the final polynomial) of lane
\* idx mod lane_count of that round is the fold of lane idx mod lane_count of the
\* previous round, and batch_folding's folded secret of lane idx mod lane_count is the
\* folding of the previous round's lane idx mod lane_count by the party's open point.
C28_LaneLineage ==
    (pc \in {"proved", "foldings_committed", "queried"} /\ LaneCountsOrdered) =>
        LET prover == dealer.prover
            folded == FoldedSecrets
        IN \A idx \in 0..(PartyCount - 1) :
              /\ \A round \in 0..(total_round - 1) :
                    LET prev == IF round = 0 THEN prover.functions[1]
                                ELSE prover.foldings[round]
                        parent == prev[(idx % Len(prev)) + 1]
                        lanes == Len(prover.functions[round + 1])
                        next == FoldFromLane(prover, round, parent, idx % lanes)
                    IN IF round < total_round - 1
                       THEN /\ Len(prover.foldings[round + 1]) = lanes
                            /\ prover.foldings[round + 1][(idx % lanes) + 1].value = next
                       ELSE prover.final_value[(idx % Len(prover.final_value)) + 1]
                              = PolynomialNew(CosetIfft(prover.interpolate_cosets[round + 2], next))
              /\ \A round \in 1..total_round :
                    /\ folded[round + 1][(idx % Len(folded[round + 1])) + 1]
                         = Folding(folded[round][(idx % Len(folded[round])) + 1],
                                   parties[idx + 1].open_point[round])
                    /\ dealer.prover.functions[round][(idx % Len(folded[round])) + 1].value
                         = CosetFft(prover.interpolate_cosets[round],
                                    folded[round][(idx % Len(folded[round])) + 1])
              /\ parties[idx + 1].final_poly[1]
                   = folded[total_round + 1][(idx % Len(folded[total_round + 1])) + 1]

\* The proof is made: the last party reads a lane other than the first in the last
\* folding, and that lane differs from the first lane.
C28_Witness ==
    /\ pc = "proved"
    /\ LaneCountsOrdered
    /\ Len(dealer.prover.foldings[total_round - 1]) > Len(dealer.prover.foldings[1])
    /\ (PartyCount - 1) % Len(dealer.prover.foldings[total_round - 1]) # 0
    /\ GetInterpolation(dealer.prover.foldings[total_round - 1], PartyCount - 1).value
         # GetInterpolation(dealer.prover.foldings[total_round - 1], 0).value

(***************************************************************************)
(* The deal with a dealer that may replace one lane's final polynomial      *)
(* between prove and commit_foldings.                                       *)
(***************************************************************************)
\* Polynomials of degree 2 and 3.
FinalReplacements == {<<1, 2, 3>>, <<1, 2, 3, 4>>}

TamperFinalValue(lane, value) ==
    /\ pc = "proved"
    /\ tamper = NoTamper
    /\ lane < Len(dealer.prover.final_value)
    /\ dealer' = [dealer EXCEPT !.prover.final_value[lane + 1] = value]
    /\ tamper' = [kind |-> "final_value", lane |-> lane]
    /\ UNCHANGED <<pc, secret, parties, query, subject, proofs, result, side_vars>>

NextFinal ==
    \/ Next
    \/ \E value \in FinalReplacements : TamperFinalValue(0, value)

SpecFinal == Init /\ [][NextFinal]_vars

\* The degree bound of party p's verifier.
FinalDegreeBound(p) ==
    2 ^ (parties[p].verifier.log_max_degree - parties[p].verifier.total_round)

\* C26 (final degree bound): a verifier holds a final polynomial only if its degree is
\* at most 2^(log_max_degree - total_round); a dealer whose final polynomial for some
\* lane exceeds the bound gets no further than the abort of commit_foldings; and
\* every final polynomial an honest dealer's prove produces is within the bound.
C26_FinalDegreeBound ==
    pc # "new" =>
        /\ \A p \in 1..Len(parties) :
              parties[p].verifier.final_value # <<>> =>
                  Degree(parties[p].verifier.final_value[1]) <= FinalDegreeBound(p)
        /\ (\E p \in 1..Len(parties) :
               /\ Len(dealer.prover.final_value) > 0
               /\ Degree(dealer.prover.final_value[((p - 1) % Len(dealer.prover.final_value)) + 1])
                    > FinalDegreeBound(p)) =>
              /\ pc \in {"proved", "aborted"}
              /\ \A p \in 1..Len(parties) : parties[p].verifier.final_value = <<>>
        /\ (tamper = NoTamper /\ pc \in {"proved", "foldings_committed", "queried",
                                         "selected", "verified"}) =>
              /\ Len(dealer.prover.final_value) > 0
              /\ \A p \in 1..Len(parties) :
                    Degree(dealer.prover.final_value[((p - 1) % Len(dealer.prover.final_value)) + 1])
                       <= FinalDegreeBound(p)

\* An honest dealer's final polynomials have reached the verifiers, one of them of
\* degree 1.
C26_Witness ==
    /\ pc = "foldings_committed"
    /\ tamper = NoTamper
    /\ \E p \in 1..Len(parties) : Degree(parties[p].verifier.final_value[1]) = 1

\* commit_foldings aborted on a final polynomial whose degree exceeds the bound.
C26_Aborted ==
    /\ pc = "aborted"
    /\ tamper.kind = "final_value"
    /\ Degree(dealer.prover.final_value[1]) > FinalDegreeBound(1)

(***************************************************************************)
(* The deal with one folding challenge replaced on the verifying side.      *)
(***************************************************************************)
MaxReplacement == 7

InitChallenge ==
    \E polynomial \in {ConstantSecret, LinearSecret, SquareSecret},
       oracle \in Oracles({OddChallenges}, {FullQueryList, SingleQueryList}) :
        Deal(polynomial, 2, 3, oracle)

NextChallenge ==
    \/ Next
    \/ \E r \in 1..total_round, c \in 0..MaxReplacement : MutateChallenge(r, c)

SpecChallenge == InitChallenge /\ [][NextChallenge]_vars

FullCoverage == parties[subject + 1].verifier.oracle.query_list = FullQueryList

\* C5 (fold-chain soundness), as claimed: with one folding challenge replaced after
\* proof generation and a query list covering every index, verify returns false.
C5_FoldChainSoundness ==
    (pc = "verified" /\ tamper.kind = "challenge" /\ FullCoverage) => result = "false"

\* The replaced challenge changes the value replayed at index j of its round.
ReplayDiffers(j) ==
    LET i == tamper.round - 1
    IN FoldReplay(SubjectCall, i, j, SubjectCall.v.oracle.folding_challenges[tamper.round])
       # FoldReplay(SubjectCall, i, j, tamper.original)

\* C5, amended: with one folding challenge replaced, verify does not abort; it returns
\* false exactly when at some queried index of that round the fold equation replayed
\* with the replacement differs from its value under the original challenge, and true
\* when they agree at every queried index (as for a constant secret in the first round,
\* where every opened pair has equal halves).
C5_FoldChainAmended ==
    (pc = "verified" /\ tamper.kind = "challenge") =>
        result = IF \E j \in SeqRange(QueriedIndices(tamper.round - 1)) : ReplayDiffers(j)
                 THEN "false" ELSE "true"

\* A replaced challenge that the full query list catches.
C5_Witness ==
    /\ pc = "verified"
    /\ tamper.kind = "challenge"
    /\ FullCoverage
    /\ result = "false"
    /\ \E j \in SeqRange(QueriedIndices(tamper.round - 1)) : ReplayDiffers(j)

(***************************************************************************)
(* Tuples (src/src/avss/dealer.rs, src/src/avss/party.rs,                   *)
(* src/gemini-fri/src/lib.rs, src/gemini-fri/src/verifier.rs).  tuple_case  *)
(* follows one receiver: the tuples it was sent, then what                  *)
(* AvssParty::verify_tuple and FriVerifier::set_tuples make of them.        *)
(***************************************************************************)
deal_vars == <<pc, secret, dealer, parties, query, subject, proofs, tamper, result>>

\* Tuples whose c is the folded polynomial at beta instead of beta * beta.
CalculateTuplesAtBeta(functions, beta) ==
    [i \in 1..(Len(functions) - 1) |->
        [j \in 1..Len(functions[i + 1]) |->
            LET k == ((j - 1) % Len(functions[i])) + 1
            IN [a |-> EvaluateAsPolynomial(functions[i][k], beta),
                b |-> EvaluateAsPolynomial(functions[i][k], Neg(beta)),
                c |-> EvaluateAsPolynomial(functions[i + 1][j], beta)]]]

CalculateTuples(functions, beta) ==
    [i \in 1..(Len(functions) - 1) |->
        [j \in 1..Len(functions[i + 1]) |->
            LET k == ((j - 1) % Len(functions[i])) + 1
            IN [a |-> EvaluateAsPolynomial(functions[i][k], beta),
                b |-> EvaluateAsPolynomial(functions[i][k], Neg(beta)),
                c |-> EvaluateAsPolynomial(functions[i + 1][j], Mul(beta, beta))]]]

\* send_tuples: the receiver number gets one tuple per round, of its lane.
SendTuples(tuples, number) ==
    [i \in 1..Len(tuples) |-> tuples[i][(number % Len(tuples[i])) + 1]]

\* Tuple::verify of src/src/avss/party.rs.
TupleVerify(t, beta, folding_param) ==
    LET v == Add(Add(t.a, t.b), Mul(Mul(folding_param, Sub(t.a, t.b)), Inverse(beta)))
    IN Mul(v, Inverse(2)) = t.c

INVERSE_2 == Inverse(2)

\* Tuple::verify of src/gemini-fri/src/lib.rs.
GeminiTupleVerify(t, beta, folding_param) ==
    LET v == Add(Mul(beta, Add(t.a, t.b)), Mul(folding_param, Sub(t.a, t.b)))
    IN Mul(v, INVERSE_2) = Mul(t.c, beta)

\* The maps verify_tuple installs, each given by the values its closure captures.
TupleMaps(tuples, beta) ==
    [i \in 1..Len(tuples) |->
        IF i = 1 THEN [a |-> tuples[i].a, b |-> tuples[i].b, beta |-> beta]
        ELSE [a |-> tuples[i].a, b |-> tuples[i].b, c |-> tuples[i - 1].c, beta |-> beta]]

\* Transforms whose c is taken from the round's own tuple.
CalculateMapsOwnC(functions, tuples, beta) ==
    [i \in 1..(Len(functions) - 1) |->
        [j \in 1..Len(functions[i]) |->
            IF i = 1 THEN [a |-> tuples[i][j].a, b |-> tuples[i][j].b, beta |-> beta]
            ELSE [a |-> tuples[i][j].a, b |-> tuples[i][j].b, c |-> tuples[i][j].c,
                  beta |-> beta]]]

\* The transforms calculate_functions attaches to the lanes of each round, each given
\* by the values its closure captures.
CalculateMaps(functions, tuples, beta) ==
    [i \in 1..(Len(functions) - 1) |->
        [j \in 1..Len(functions[i]) |->
            IF i = 1 THEN [a |-> tuples[i][j].a, b |-> tuples[i][j].b, beta |-> beta]
            ELSE [a |-> tuples[i][j].a, b |-> tuples[i][j].b, c |-> tuples[i - 1][j].c,
                  beta |-> beta]]]

\* What a transform returns for the value v at the point x.
ApplyMap(map, v, x) ==
    LET first == Add(Add(Mul(Sub(v, map.b), Inverse(Add(x, map.beta))), v),
                     Mul(Sub(v, map.a), Inverse(Sub(x, map.beta))))
    IN IF "c" \in DOMAIN map
       THEN Add(Mul(Sub(v, map.c), Inverse(Sub(x, Mul(map.beta, map.beta)))), first)
       ELSE first

\* AvssParty::verify_tuple: <<outcome, maps installed>>.
VerifyTuple(tuples, open_point, beta) ==
    IF Len(tuples) # Len(open_point) THEN <<"panic", <<>>>>
    ELSE IF \E i \in 1..Len(tuples) : ~TupleVerify(tuples[i], beta, open_point[i])
         THEN <<"false", <<>>>>
         ELSE <<"true", TupleMaps(tuples, beta)>>

\* The evaluation pairs set_tuples attaches to the committed functions.
TupleEvaluations(tuples, beta) ==
    [i \in 1..Len(tuples) |->
        (IF i > 1 THEN <<<<Mul(beta, beta), tuples[i - 1].c>>>> ELSE <<>>)
        \o <<<<beta, tuples[i].a>>, <<Neg(beta), tuples[i].b>>>>]

\* FriVerifier::set_tuples: every tuple is asserted.
SetTuples(tuples, open_point, beta) ==
    IF \E i \in 1..Len(tuples) : ~GeminiTupleVerify(tuples[i], beta, open_point[i])
    THEN <<"panic", <<>>>>
    ELSE <<"ok", TupleEvaluations(tuples, beta)>>

TupleDeal(polynomial, x_shift, beta, number) ==
    \E folding_parameter \in {FoldingParameter(x_shift)} :
    \E functions \in {BatchFolding(polynomial, folding_parameter)} :
    \E tuples \in {CalculateTuples(functions, beta)} :
    \E maps \in {CalculateMaps(functions, tuples, beta)} :
       /\ tuple_case = [beta |-> beta,
                        open_point |-> OpenPoint(folding_parameter, number),
                        tuples |-> SendTuples(tuples, number),
                        dealer_maps |->
                            [i \in 1..(Len(functions) - 1) |->
                                maps[i][(number % Len(functions[i])) + 1]],
                        changed |-> FALSE,
                        party |-> "none", maps |-> <<>>,
                        fri |-> "none", evaluations |-> <<>>]
       /\ pc = "tuples"
       /\ secret = polynomial
       /\ dealer = <<>> /\ parties = <<>> /\ query = <<>> /\ subject = number
       /\ proofs = <<>> /\ tamper = NoTamper /\ result = "none"
       /\ merkle_case = <<>> /\ fft_case = <<>> /\ algebra_case = <<>> /\ oracle_case = <<>> /\ gemini_case = <<>>

InitTuple ==
    \E polynomial \in {LinearSecret, SquareSecret}, beta \in {0, 1, 5},
       number \in 0..(PartyCount - 1) :
        TupleDeal(polynomial, 3, beta, number)

ChangeTuple(i, field, delta) ==
    /\ pc = "tuples"
    /\ ~tuple_case.changed
    /\ tuple_case.party = "none" /\ tuple_case.fri = "none"
    /\ tuple_case' = [tuple_case EXCEPT !.tuples[i][field] = Add(@, delta), !.changed = TRUE]
    /\ UNCHANGED <<deal_vars, merkle_case, fft_case, algebra_case, oracle_case, gemini_case>>

DoVerifyTuple ==
    /\ pc = "tuples"
    /\ tuple_case.party = "none"
    /\ LET r == VerifyTuple(tuple_case.tuples, tuple_case.open_point, tuple_case.beta)
       IN tuple_case' = [tuple_case EXCEPT !.party = r[1], !.maps = r[2]]
    /\ UNCHANGED <<deal_vars, merkle_case, fft_case, algebra_case, oracle_case, gemini_case>>

DoSetTuples ==
    /\ pc = "tuples"
    /\ tuple_case.fri = "none"
    /\ LET r == SetTuples(tuple_case.tuples, tuple_case.open_point, tuple_case.beta)
       IN tuple_case' = [tuple_case EXCEPT !.fri = r[1], !.evaluations = r[2]]
    /\ UNCHANGED <<deal_vars, merkle_case, fft_case, algebra_case, oracle_case, gemini_case>>

NextTuple ==
    \/ \E i \in 1..log_t, field \in {"a", "b", "c"}, delta \in 1..MaxDelta :
          ChangeTuple(i, field, delta)
    \/ DoVerifyTuple
    \/ DoSetTuples

SpecTuple == InitTuple /\ [][NextTuple]_vars

TupleMismatch ==
    \E i \in 1..Len(tuple_case.tuples) :
        ~GeminiTupleVerify(tuple_case.tuples[i], tuple_case.beta, tuple_case.open_point[i])

\* C8 (tuple mismatch is a returned rejection): a received tuple that violates the
\* identity for the verifier's beta and the round's folding parameter is rejected by
\* a returned false, by AvssParty::verify_tuple and by FriVerifier::set_tuples alike,
\* never by an abort.
C8_TupleMismatchRejected ==
    (pc = "tuples" /\ TupleMismatch) =>
        /\ tuple_case.party \in {"none", "false"}
        /\ tuple_case.fri \in {"none", "false"}

\* C12 (tuple identity): the tuple a = p(beta), b = p(-beta), c = p'(beta^2) computed
\* by the dealer for p' = p.folding(r) satisfies beta*(a+b) + r*(a-b) = 2*beta*c for
\* every round of every receiver, so Tuple::verify(beta, r) returns true and
\* set_tuples accepts the tuples.
C12_TupleIdentity ==
    (pc = "tuples" /\ ~tuple_case.changed) =>
        /\ \A i \in 1..Len(tuple_case.tuples) :
              /\ GeminiTupleVerify(tuple_case.tuples[i], tuple_case.beta,
                                   tuple_case.open_point[i])
              /\ Add(Mul(tuple_case.beta, Add(tuple_case.tuples[i].a, tuple_case.tuples[i].b)),
                     Mul(tuple_case.open_point[i],
                         Sub(tuple_case.tuples[i].a, tuple_case.tuples[i].b)))
                 = Mul(Mul(2, tuple_case.beta), tuple_case.tuples[i].c)
        /\ tuple_case.fri \in {"none", "ok"}

\* Honest tuples for beta = 5 with a # b in the first round, accepted by set_tuples.
C12_Witness ==
    /\ pc = "tuples"
    /\ ~tuple_case.changed
    /\ tuple_case.beta = 5
    /\ tuple_case.tuples[1].a # tuple_case.tuples[1].b
    /\ tuple_case.tuples[1].c # 0
    /\ tuple_case.fri = "ok"

\* Points and values the transforms are compared at.
MapSamples == {1, 2, 3, 7, 11, 100}

\* C29 (dealer/party transform agreement): after send_tuples and a successful
\* verify_tuple, in every round the transform the party installed from its tuples
\* (a, b of its tuple of the round, c of its tuple of the round before, beta) is the
\* transform the dealer attached to the lane the party reads in that round: the same
\* captured values, and the same result at every sampled value and point.
C29_TransformAgreement ==
    (pc = "tuples" /\ ~tuple_case.changed /\ tuple_case.party = "true") =>
        /\ Len(tuple_case.maps) = Len(tuple_case.dealer_maps)
        /\ \A i \in 1..Len(tuple_case.maps) :
              /\ tuple_case.maps[i] = tuple_case.dealer_maps[i]
              /\ \A v \in MapSamples, x \in MapSamples :
                    ApplyMap(tuple_case.maps[i], v, x) = ApplyMap(tuple_case.dealer_maps[i], v, x)

\* The last party, which reads a lane other than the first in every round after the
\* first, has accepted its tuples for beta = 5 and installed a transform per round.
C29_Witness ==
    /\ pc = "tuples"
    /\ ~tuple_case.changed
    /\ tuple_case.party = "true"
    /\ subject = PartyCount - 1
    /\ tuple_case.beta = 5
    /\ Len(tuple_case.maps) = log_t
    /\ tuple_case.maps[2].c # 0
    /\ tuple_case.maps[2].a # tuple_case.maps[1].a

(***************************************************************************)
(* Merkle commitment on its own (src/src/merkle_tree.rs): commit to leaves, *)
(* open an index set, possibly change one opened value, verify.             *)
(***************************************************************************)
MaxLeaves == 6

\* Leaf i holds a pair of field values; seed 0 makes every leaf's first value equal.
LeafPairs(n, seed) == [i \in 1..n |-> <<(i * seed) % MOD, (i + seed) % MOD>>]

LeafBytes(pairs) == [i \in 1..Len(pairs) |-> AsBytesVec(pairs[i])]

MerkleDeal(n, seed) ==
    /\ merkle_case = [stage |-> "committed",
                      pairs |-> LeafPairs(n, seed),
                      tree |-> MerkleTreeProverNew(LeafBytes(LeafPairs(n, seed))),
                      verifier |-> [merkle_root |->
                                       MerkleCommit(MerkleTreeProverNew(LeafBytes(LeafPairs(n, seed)))),
                                    leave_number |-> n],
                      indices |-> <<>>, proof |-> <<>>, opened |-> <<>>,
                      changed |-> FALSE, outcome |-> "none"]
    /\ pc = "merkle"
    /\ secret = <<>> /\ dealer = <<>> /\ parties = <<>> /\ query = <<>> /\ subject = -1
    /\ proofs = <<>> /\ tamper = NoTamper /\ result = "none"
    /\ fft_case = <<>> /\ tuple_case = <<>> /\ algebra_case = <<>> /\ oracle_case = <<>> /\ gemini_case = <<>>

InitMerkle == \E n \in 1..MaxLeaves, seed \in {0, 3} : MerkleDeal(n, seed)

DoOpen(index_set) ==
    /\ pc = "merkle"
    /\ merkle_case.stage = "committed"
    /\ index_set # {}
    /\ LET indices == SortedSeq(index_set)
       IN merkle_case' = [merkle_case EXCEPT
                             !.stage = "opened",
                             !.indices = indices,
                             !.proof = MerkleOpen(merkle_case.tree, indices),
                             !.opened = [k \in 1..Len(indices) |->
                                            merkle_case.pairs[indices[k] + 1]]]
    /\ UNCHANGED <<deal_vars, fft_case, tuple_case, algebra_case, oracle_case, gemini_case>>

\* One value of one opened leaf is changed.
ChangeOpened(k, half, delta) ==
    /\ pc = "merkle"
    /\ merkle_case.stage = "opened"
    /\ ~merkle_case.changed
    /\ k \in 1..Len(merkle_case.opened)
    /\ merkle_case' = [merkle_case EXCEPT !.opened[k][half] = Add(@, delta),
                                          !.changed = TRUE]
    /\ UNCHANGED <<deal_vars, fft_case, tuple_case, algebra_case, oracle_case, gemini_case>>

DoMerkleVerify ==
    /\ pc = "merkle"
    /\ merkle_case.stage = "opened"
    /\ merkle_case' = [merkle_case EXCEPT
          !.stage = "verified",
          !.outcome = IF MerkleVerify(merkle_case.verifier, merkle_case.proof,
                                      merkle_case.indices, LeafBytes(merkle_case.opened))
                      THEN "true" ELSE "false"]
    /\ UNCHANGED <<deal_vars, fft_case, tuple_case, algebra_case, oracle_case, gemini_case>>

NextMerkle ==
    \/ \E index_set \in SUBSET (0..(MaxLeaves - 1)) :
          /\ merkle_case.stage = "committed"
          /\ index_set \subseteq 0..(merkle_case.verifier.leave_number - 1)
          /\ DoOpen(index_set)
    \/ \E k \in 1..MaxLeaves, half \in 1..2, delta \in 1..MaxDelta : ChangeOpened(k, half, delta)
    \/ DoMerkleVerify

SpecMerkle == InitMerkle /\ [][NextMerkle]_vars

\* C9 (Merkle soundness): verify, called with the authentic path, the same indices and
\* leaf bytes in which exactly one opened value was changed, returns false.
C9_MerkleSoundness ==
    (pc = "merkle" /\ merkle_case.stage = "verified" /\ merkle_case.changed)
        => merkle_case.outcome = "false"

\* A changed value among several opened leaves of a tree whose leaf count is no power
\* of two, rejected.
C9_Witness ==
    /\ pc = "merkle"
    /\ merkle_case.stage = "verified"
    /\ merkle_case.changed
    /\ Len(merkle_case.indices) >= 2
    /\ merkle_case.verifier.leave_number = 5
    /\ merkle_case.outcome = "false"

(***************************************************************************)
(* FFT on its own (src/src/algebra/coset.rs): a vector of the coset's       *)
(* length is transformed and transformed back.                              *)
(***************************************************************************)
MaxLogOrder == 3

MaxShift == 3

\* Vectors of length n: the zero vector, unit vectors, a ramp and an alternating one.
Vectors(n) ==
    {[i \in 1..n |-> 0], [i \in 1..n |-> i], [i \in 1..n |-> IF i % 2 = 1 THEN 1 ELSE MOD - 1]}
    \cup {[i \in 1..n |-> IF i = k THEN 1 ELSE 0] : k \in 1..n}
    \cup {[i \in 1..n |-> (i * i * k + k) % MOD] : k \in 1..n}

FftDeal(order, shift, v) ==
    /\ fft_case = [stage |-> "start", coset |-> CosetNew(order, shift), v |-> v,
                   image |-> <<>>, back |-> <<>>]
    /\ pc = "fft"
    /\ secret = <<>> /\ dealer = <<>> /\ parties = <<>> /\ query = <<>> /\ subject = -1
    /\ proofs = <<>> /\ tamper = NoTamper /\ result = "none"
    /\ merkle_case = <<>> /\ tuple_case = <<>> /\ algebra_case = <<>> /\ oracle_case = <<>> /\ gemini_case = <<>>

InitFft ==
    \E k \in 0..MaxLogOrder, shift \in 1..MaxShift :
        \E v \in Vectors(2 ^ k) : FftDeal(2 ^ k, shift, v)

DoFft ==
    /\ pc = "fft"
    /\ fft_case.stage = "start"
    /\ fft_case' = [fft_case EXCEPT !.stage = "transformed",
                                    !.image = CosetFft(fft_case.coset, fft_case.v)]
    /\ UNCHANGED <<deal_vars, merkle_case, tuple_case, algebra_case, oracle_case, gemini_case>>

DoIfft ==
    /\ pc = "fft"
    /\ fft_case.stage = "transformed"
    /\ fft_case' = [fft_case EXCEPT !.stage = "inverted",
                                    !.back = CosetIfft(fft_case.coset, fft_case.image)]
    /\ UNCHANGED <<deal_vars, merkle_case, tuple_case, algebra_case, oracle_case, gemini_case>>

NextFft == DoFft \/ DoIfft

SpecFft == InitFft /\ [][NextFft]_vars

\* C10 (FFT round-trip): for a coset of power-of-two order n with a nonzero shift and
\* a vector v of length n, ifft(fft(v)) = v.
C10_FftRoundTrip == (pc = "fft" /\ fft_case.stage = "inverted") => fft_case.back = fft_case.v

\* A vector of the largest order on a shifted coset, changed by fft and restored by ifft.
C10_Witness ==
    /\ pc = "fft"
    /\ fft_case.stage = "inverted"
    /\ fft_case.coset.order = 2 ^ MaxLogOrder
    /\ fft_case.coset.shift # 1
    /\ fft_case.image # fft_case.v
    /\ fft_case.back = fft_case.v

(***************************************************************************)
(* The algebra on its own (src/src/algebra/polynomial.rs,                   *)
(* src/src/algebra/coset.rs, src/src/util.rs): algebra_case holds one       *)
(* object and what the calls made on it returned.                           *)
(***************************************************************************)
MaxVars == 3

\* The coordinates points are drawn from.
Coordinates == {0, 1, 2, MOD - 1}

RECURSIVE Points(_)
Points(k) ==
    IF k = 0 THEN {<<>>}
    ELSE {Append(p, c) : p \in Points(k - 1), c \in Coordinates}

AlgebraDeal(case) ==
    /\ algebra_case = case
    /\ pc = "algebra"
    /\ secret = <<>> /\ dealer = <<>> /\ parties = <<>> /\ query = <<>> /\ subject = -1
    /\ proofs = <<>> /\ tamper = NoTamper /\ result = "none"
    /\ merkle_case = <<>> /\ fft_case = <<>> /\ tuple_case = <<>> /\ oracle_case = <<>> /\ gemini_case = <<>>

\* test::multilinear: a polynomial of 2^k coefficients and a point of k coordinates.
MultilinearCases ==
    UNION {{[kind |-> "multilinear", poly |-> v, point |-> p, folded |-> v, step |-> 0,
             evaluated |-> "none", value |-> 0] : v \in Vectors(2 ^ k), p \in Points(k)} :
           k \in 0..MaxVars}

\* folding_poly = folding_poly.folding(parameter), for the next coordinate.
DoFolding ==
    /\ pc = "algebra"
    /\ algebra_case.kind = "multilinear"
    /\ algebra_case.step < Len(algebra_case.point)
    /\ algebra_case' =
         [algebra_case EXCEPT
            !.folded = Folding(algebra_case.folded, algebra_case.point[algebra_case.step + 1]),
            !.step = @ + 1]
    /\ UNCHANGED <<deal_vars, merkle_case, fft_case, tuple_case, oracle_case, gemini_case>>

\* poly.evaluate(&point); the assert_eq! on the lengths aborts the call.
DoEvaluate ==
    /\ pc = "algebra"
    /\ algebra_case.kind = "multilinear"
    /\ algebra_case.evaluated = "none"
    /\ algebra_case' =
         IF 2 ^ Len(algebra_case.point) # Len(algebra_case.poly)
         THEN [algebra_case EXCEPT !.evaluated = "panic"]
         ELSE [algebra_case EXCEPT
                 !.evaluated = "ok",
                 !.value = Evaluate(algebra_case.poly, algebra_case.point)]
    /\ UNCHANGED <<deal_vars, merkle_case, fft_case, tuple_case, oracle_case, gemini_case>>

\* C11 (fold/evaluate agreement): for a multilinear polynomial of 2^k coefficients
\* and a point of k coordinates, folding by point[0], ..., point[k-1] in order leaves
\* exactly one coefficient, and it equals evaluate(point).
C11_FoldEvaluateAgreement ==
    (/\ pc = "algebra"
     /\ algebra_case.kind = "multilinear"
     /\ 2 ^ Len(algebra_case.point) = Len(algebra_case.poly)
     /\ algebra_case.step = Len(algebra_case.point)
     /\ algebra_case.evaluated # "none")
    => /\ algebra_case.evaluated = "ok"
       /\ Len(algebra_case.folded) = 1
       /\ algebra_case.folded[1] = algebra_case.value

\* Eight coefficients folded three times along a point of distinct nonzero
\* coordinates, down to the nonzero value evaluate returned.
C11_Witness ==
    /\ pc = "algebra"
    /\ algebra_case.kind = "multilinear"
    /\ Len(algebra_case.poly) = 2 ^ MaxVars
    /\ algebra_case.point = <<2, MOD - 1, 1>>
    /\ algebra_case.step = MaxVars
    /\ algebra_case.evaluated = "ok"
    /\ algebra_case.value # 0
    /\ algebra_case.folded = <<algebra_case.value>>

MaxExponent == 12

MaxPowDepth == 2

\* Coset::new for a power-of-two order and a nonzero shift; no pow call made yet.
CosetCases ==
    {[kind |-> "coset", coset |-> CosetNew(2 ^ e, shift), parent |-> CosetNew(2 ^ e, shift),
      last_k |-> 1, depth |-> 0, status |-> "ok"] :
        e \in 0..MaxLogOrder, shift \in 1..MaxShift}

\* coset.pow(k): `self.order() / lowbit` divides by zero for k = 0.
DoCosetPow(k) ==
    /\ pc = "algebra"
    /\ algebra_case.kind = "coset"
    /\ algebra_case.status = "ok"
    /\ algebra_case.depth < MaxPowDepth
    /\ algebra_case' =
         IF LowBit(k) = 0
         THEN [algebra_case EXCEPT !.status = "panic", !.last_k = k, !.depth = @ + 1,
                                   !.parent = algebra_case.coset]
         ELSE [algebra_case EXCEPT !.coset = CosetPow(algebra_case.coset, k), !.last_k = k,
                                   !.depth = @ + 1, !.parent = algebra_case.coset]
    /\ UNCHANGED <<deal_vars, merkle_case, fft_case, tuple_case, oracle_case, gemini_case>>

\* C13 (coset order invariant): every Coset reached from Coset::new by pow(k) calls
\* has an order that is a power of two (at least 1), and pow(k) returns a coset of
\* order parent order / lowbit(k) with generator and shift raised to the k-th power.
C13_CosetOrderInvariant ==
    (pc = "algebra" /\ algebra_case.kind = "coset") =>
        /\ algebra_case.status = "ok"
        /\ \E e \in 0..LOG_MAX_DEGREE : algebra_case.coset.order = 2 ^ e
        /\ algebra_case.depth > 0 =>
              /\ algebra_case.coset.order * LowBit(algebra_case.last_k)
                   = algebra_case.parent.order
              /\ algebra_case.coset.omega = Pow(algebra_case.parent.omega, algebra_case.last_k)
              /\ algebra_case.coset.shift = Pow(algebra_case.parent.shift, algebra_case.last_k)

\* C14 (coset power mapping): for a coset C, an exponent k and every idx < C.size(),
\* the k-th power of C's element idx is element idx mod C.pow(k).size() of C.pow(k);
\* for k = 2, element idx of C.pow(2) is the square of C's elements idx and
\* idx + C.size()/2.
C14_CosetPowerMapping ==
    (pc = "algebra" /\ algebra_case.kind = "coset" /\ algebra_case.depth > 0) =>
        /\ algebra_case.status = "ok"
        /\ algebra_case.coset.order >= 1
        /\ \A idx \in 0..(algebra_case.parent.order - 1) :
              Pow(ElementAt(algebra_case.parent, idx), algebra_case.last_k)
                = AllElements(algebra_case.coset)[(idx % algebra_case.coset.order) + 1]
        /\ (algebra_case.last_k = 2 /\ algebra_case.parent.order >= 2) =>
              \A idx \in 0..(algebra_case.coset.order - 1) :
                 /\ ElementAt(algebra_case.coset, idx)
                      = Pow(ElementAt(algebra_case.parent, idx), 2)
                 /\ ElementAt(algebra_case.coset, idx)
                      = Pow(ElementAt(algebra_case.parent,
                                      idx + algebra_case.parent.order \div 2), 2)

MaxSplitLog == 6

\* The numbers split_n is called on.
SplitCases ==
    {[kind |-> "split", n |-> n, parts |-> <<>>, done |-> FALSE] :
        n \in 0..(2 ^ MaxSplitLog - 1)}

DoSplitN ==
    /\ pc = "algebra"
    /\ algebra_case.kind = "split"
    /\ ~algebra_case.done
    /\ algebra_case' = [algebra_case EXCEPT !.parts = split_n(algebra_case.n), !.done = TRUE]
    /\ UNCHANGED <<deal_vars, merkle_case, fft_case, tuple_case, oracle_case, gemini_case>>

RECURSIVE SumSeq(_)
SumSeq(q) == IF Len(q) = 0 THEN 0 ELSE q[1] + SumSeq(Tail(q))

\* C15 (split_n decomposition): for t >= 1, split_n(2^t - 1) returns exactly the t
\* powers of two 2^(t-1), ..., 2, 1 in strictly descending order, and they sum to
\* 2^t - 1.
C15_SplitDecomposition ==
    (pc = "algebra" /\ algebra_case.kind = "split" /\ algebra_case.done) =>
        \A t \in 1..MaxSplitLog :
            algebra_case.n = 2 ^ t - 1 =>
                /\ Len(algebra_case.parts) = t
                /\ \A i \in 1..t : algebra_case.parts[i] = 2 ^ (t - i)
                /\ \A i \in 1..(t - 1) : algebra_case.parts[i] > algebra_case.parts[i + 1]
                /\ SumSeq(algebra_case.parts) = 2 ^ t - 1

\* split_n(2^MaxSplitLog - 1) has returned, starting with the largest power.
C15_Witness ==
    /\ pc = "algebra"
    /\ algebra_case.kind = "split"
    /\ algebra_case.done
    /\ algebra_case.n = 2 ^ MaxSplitLog - 1
    /\ Len(algebra_case.parts) = MaxSplitLog
    /\ algebra_case.parts[1] = 2 ^ (MaxSplitLog - 1)

MaxVectorLen == 2 ^ MaxLogOrder + 1

\* A coset and a vector of any length up to one more than the largest order.
TransformCases ==
    {[kind |-> "transform", coset |-> CosetNew(2 ^ e, shift), v |-> v, op |-> "none",
      outcome |-> "none", out |-> <<>>] :
        e \in 0..MaxLogOrder, shift \in 1..MaxShift,
        v \in UNION {Vectors(n) : n \in 0..MaxVectorLen}}

DoCosetFft ==
    /\ pc = "algebra"
    /\ algebra_case.kind = "transform"
    /\ algebra_case.op = "none"
    /\ algebra_case' =
         IF CosetFftPanics(algebra_case.coset, algebra_case.v)
         THEN [algebra_case EXCEPT !.op = "fft", !.outcome = "panic"]
         ELSE [algebra_case EXCEPT !.op = "fft", !.outcome = "ok",
                                   !.out = CosetFft(algebra_case.coset, algebra_case.v)]
    /\ UNCHANGED <<deal_vars, merkle_case, fft_case, tuple_case, oracle_case, gemini_case>>

DoCosetIfft ==
    /\ pc = "algebra"
    /\ algebra_case.kind = "transform"
    /\ algebra_case.op = "none"
    /\ algebra_case' =
         IF CosetIfftPanics(algebra_case.coset, algebra_case.v)
         THEN [algebra_case EXCEPT !.op = "ifft", !.outcome = "panic"]
         ELSE [algebra_case EXCEPT !.op = "ifft", !.outcome = "ok",
                                   !.out = CosetIfft(algebra_case.coset, algebra_case.v)]
    /\ UNCHANGED <<deal_vars, merkle_case, fft_case, tuple_case, oracle_case, gemini_case>>

\* C16 (length precondition), as stated: Coset::fft and Coset::ifft abort whenever
\* the input vector's length differs from the coset's order, and never return a
\* result for a vector of another length.
C16_LengthPrecondition ==
    (/\ pc = "algebra"
     /\ algebra_case.kind = "transform"
     /\ algebra_case.op # "none"
     /\ Len(algebra_case.v) # algebra_case.coset.order)
    => algebra_case.outcome = "panic"

\* C16, amended: Coset::fft aborts exactly when the vector is longer than the order,
\* and otherwise returns one value per coset element, the value at that element of
\* the polynomial whose coefficients are the vector (padded with zeros); Coset::ifft returns a one-element vector unchanged whatever the order,
\* and otherwise aborts exactly when the length differs from the order.
C16_LengthAmended ==
    (pc = "algebra" /\ algebra_case.kind = "transform" /\ algebra_case.op # "none") =>
        LET n == algebra_case.coset.order
            len == Len(algebra_case.v)
        IN /\ algebra_case.op = "fft" =>
                /\ (algebra_case.outcome = "panic") = (len > n)
                /\ len <= n =>
                      /\ Len(algebra_case.out) = n
                      /\ \A i \in 1..n :
                            algebra_case.out[i]
                              = EvaluationAt(algebra_case.v, ElementAt(algebra_case.coset, i - 1))
           /\ algebra_case.op = "ifft" =>
                /\ (algebra_case.outcome = "panic") = (len # 1 /\ len # n)
                /\ len = 1 => algebra_case.out = algebra_case.v
                /\ (len = n /\ len # 1) =>
                      CosetFft(algebra_case.coset, algebra_case.out) = algebra_case.v

\* fft has returned a full-length image for a nonzero vector shorter than the order.
C16_Witness ==
    /\ pc = "algebra"
    /\ algebra_case.kind = "transform"
    /\ algebra_case.op = "fft"
    /\ algebra_case.outcome = "ok"
    /\ Len(algebra_case.v) = 3
    /\ algebra_case.coset.order = 2 ^ MaxLogOrder
    /\ ~AllZero(algebra_case.v)
    /\ Len(algebra_case.out) = algebra_case.coset.order

\* C25 (fft is pointwise evaluation): for every coset of order n and every polynomial
\* of at most n coefficients, entry i of fft(coefficients) is the polynomial's
\* evaluation_at at element i of the coset, for every i below n.
C25_FftIsEvaluation ==
    (/\ pc = "algebra"
     /\ algebra_case.kind = "transform"
     /\ algebra_case.op = "fft"
     /\ Len(algebra_case.v) <= algebra_case.coset.order) =>
        LET coset == algebra_case.coset
            all_elements == AllElements(coset)
            poly == IF PolynomialNewPanics(algebra_case.v) THEN <<>>
                    ELSE PolynomialNew(algebra_case.v)
        IN /\ algebra_case.outcome = "ok"
           /\ algebra_case.out = CosetFft(coset, poly)
           /\ \A i \in 0..(coset.order - 1) :
                 algebra_case.out[i + 1] = EvaluationAt(poly, all_elements[i + 1])

\* A polynomial with as many coefficients as the largest coset has elements was
\* evaluated over a coset with a shift other than one; its values are not all equal.
C25_Witness ==
    /\ pc = "algebra"
    /\ algebra_case.kind = "transform"
    /\ algebra_case.op = "fft"
    /\ algebra_case.outcome = "ok"
    /\ algebra_case.coset.order = 2 ^ MaxLogOrder
    /\ algebra_case.coset.shift # 1
    /\ Len(algebra_case.v) = 2 ^ MaxLogOrder
    /\ ~PolynomialNewPanics(algebra_case.v)
    /\ Degree(PolynomialNew(algebra_case.v)) = 2 ^ MaxLogOrder - 1
    /\ \E i, j \in 1..Len(algebra_case.out) : algebra_case.out[i] # algebra_case.out[j]

\* The coefficient vectors Polynomial::new is called on; degree -1: not asked yet.
PolynomialCases ==
    {[kind |-> "polynomial", v |-> v, outcome |-> "none", coefficients |-> <<>>,
      degree |-> -1] : v \in UNION {Vectors(n) : n \in 0..MaxVectorLen}}

DoPolynomialNew ==
    /\ pc = "algebra"
    /\ algebra_case.kind = "polynomial"
    /\ algebra_case.outcome = "none"
    /\ algebra_case' =
         IF PolynomialNewPanics(algebra_case.v)
         THEN [algebra_case EXCEPT !.outcome = "panic"]
         ELSE [algebra_case EXCEPT !.outcome = "ok",
                                   !.coefficients = PolynomialNew(algebra_case.v)]
    /\ UNCHANGED <<deal_vars, merkle_case, fft_case, tuple_case, oracle_case, gemini_case>>

DoDegree ==
    /\ pc = "algebra"
    /\ algebra_case.kind = "polynomial"
    /\ algebra_case.outcome = "ok"
    /\ algebra_case.degree = -1
    /\ algebra_case' = [algebra_case EXCEPT !.degree = Degree(algebra_case.coefficients)]
    /\ UNCHANGED <<deal_vars, merkle_case, fft_case, tuple_case, oracle_case, gemini_case>>

\* C17 (polynomial normal form): for every coefficient vector, Polynomial::new
\* returns a polynomial whose coefficient list is the vector with all trailing zero
\* coefficients removed (the empty list for an all-zero vector), and degree() returns
\* len - 1, or 0 when the list is empty.
C17_PolynomialNormalForm ==
    (pc = "algebra" /\ algebra_case.kind = "polynomial" /\ algebra_case.outcome # "none") =>
        LET len == Len(algebra_case.coefficients)
        IN /\ algebra_case.outcome = "ok"
           /\ len <= Len(algebra_case.v)
           /\ algebra_case.coefficients = SubSeq(algebra_case.v, 1, len)
           /\ len > 0 => algebra_case.coefficients[len] # 0
           /\ \A i \in (len + 1)..Len(algebra_case.v) : algebra_case.v[i] = 0
           /\ algebra_case.degree # -1 =>
                 algebra_case.degree = (IF len = 0 THEN 0 ELSE len - 1)

\* The loop of element_at and all_elements: n pushes, starting at el, each push
\* followed by a multiplication by omega.
RECURSIVE PushElements(_, _, _)
PushElements(el, omega, n) ==
    IF n = 0 THEN <<>> ELSE <<el>> \o PushElements(Mul(el, omega), omega, n - 1)

\* A cache filled from the generator instead of the shift.
CosetElementsFromOmega(c, elements) ==
    IF Len(elements) = 0 THEN PushElements(c.omega, c.omega, c.order) ELSE elements

\* The element list after element_at or all_elements: filled when it was empty.
CosetElements(c, elements) ==
    IF Len(elements) = 0 THEN PushElements(c.shift, c.omega, c.order) ELSE elements

\* A coset from Coset::new, or its square, with the element list still empty.
CacheCases ==
    {[kind |-> "cache", coset |-> c, elements |-> <<>>, fills |-> 0, op |-> "none",
      index |-> 0, outcome |-> "none", value |-> 0, list |-> <<>>] :
        c \in {CosetNew(2 ^ e, shift) : e \in 0..MaxLogOrder, shift \in 1..MaxShift}
              \cup {CosetPow(CosetNew(2 ^ e, shift), 2) : e \in 1..MaxLogOrder,
                                                          shift \in 1..MaxShift}}

\* coset.element_at(index): the list is filled first, then indexed; an index beyond
\* the list aborts with the list already filled.
DoElementAt(index) ==
    /\ pc = "algebra"
    /\ algebra_case.kind = "cache"
    /\ index <= algebra_case.coset.order
    /\ LET elements == CosetElements(algebra_case.coset, algebra_case.elements)
       IN algebra_case' =
            [algebra_case EXCEPT
                !.elements = elements,
                !.fills = IF Len(algebra_case.elements) = 0 THEN @ + 1 ELSE @,
                !.op = "element_at",
                !.index = index,
                !.outcome = IF index >= Len(elements) THEN "panic" ELSE "ok",
                !.value = IF index >= Len(elements) THEN 0 ELSE elements[index + 1],
                !.list = <<>>]
    /\ UNCHANGED <<deal_vars, merkle_case, fft_case, tuple_case, oracle_case, gemini_case>>

DoAllElements ==
    /\ pc = "algebra"
    /\ algebra_case.kind = "cache"
    /\ LET elements == CosetElements(algebra_case.coset, algebra_case.elements)
       IN algebra_case' =
            [algebra_case EXCEPT
                !.elements = elements,
                !.fills = IF Len(algebra_case.elements) = 0 THEN @ + 1 ELSE @,
                !.op = "all_elements",
                !.index = 0,
                !.outcome = "ok",
                !.value = 0,
                !.list = elements]
    /\ UNCHANGED <<deal_vars, merkle_case, fft_case, tuple_case, oracle_case, gemini_case>>

\* C23 (element cache): a coset's element list is filled at most once; it is empty
\* or holds exactly the order elements shift * generator^i in order, the last one
\* times the generator being the first; element_at(i) and all_elements()[i] return
\* shift * generator^i whatever calls came before.
C23_ElementCache ==
    (pc = "algebra" /\ algebra_case.kind = "cache") =>
        LET c == algebra_case.coset
            expected == [i \in 1..c.order |-> Mul(c.shift, Pow(c.omega, i - 1))]
        IN /\ algebra_case.fills <= 1
           /\ algebra_case.fills = 0 <=> algebra_case.elements = <<>>
           /\ algebra_case.elements # <<>> =>
                 /\ algebra_case.elements = expected
                 /\ Mul(algebra_case.elements[c.order], c.omega) = algebra_case.elements[1]
           /\ (algebra_case.op = "element_at" /\ algebra_case.index < c.order) =>
                 /\ algebra_case.outcome = "ok"
                 /\ algebra_case.value = expected[algebra_case.index + 1]
           /\ algebra_case.op = "all_elements" => algebra_case.list = expected

\* The last element of a coset of the largest order and a shift other than one was
\* read, the element list having been filled once.
C23_Witness ==
    /\ pc = "algebra"
    /\ algebra_case.kind = "cache"
    /\ algebra_case.coset.order = 2 ^ MaxLogOrder
    /\ algebra_case.coset.shift # 1
    /\ algebra_case.op = "element_at"
    /\ algebra_case.index = algebra_case.coset.order - 1
    /\ algebra_case.outcome = "ok"
    /\ algebra_case.fills = 1
    /\ algebra_case.value # algebra_case.coset.shift

\* The fold without the final multiplication by the inverse of two.
FoldUnscaled(values, parameter, coset) ==
    LET len == Len(values) \div 2
    IN [i \in 1..len |->
          FoldPair(values[i], values[i + len], parameter, ElementInvAt(coset, i - 1))]

\* One2ManyProver::fold of src/pcs/src/prover.rs.
Fold(values, parameter, coset) ==
    LET len == Len(values) \div 2
    IN [i \in 1..len |->
          Mul(FoldPair(values[i], values[i + len], parameter, ElementInvAt(coset, i - 1)),
              INVERSE_2)]

\* folding_vector reads v[i + 1] for every even i below the length: a vector of one
\* coefficient is indexed out of bounds, a length that is no power of two fails the
\* assertion.
FoldingPanics(poly) == Len(poly) = 1 \/ ~IsPowerOfTwo(Len(poly))

FoldParameters == {0, 1, 5}

\* A coset, a coefficient vector of a power-of-two length up to the coset's order,
\* and a folding parameter.
FoldCases ==
    {[kind |-> "fold", coset |-> CosetNew(2 ^ e, shift), c |-> c, r |-> r,
      outcome |-> "none", folded |-> <<>>, squared |-> <<>>] :
        e \in 0..MaxLogOrder, shift \in 1..MaxShift, r \in FoldParameters,
        c \in UNION {Vectors(2 ^ k) : k \in 0..MaxLogOrder}}

\* The evaluations of c over the coset are folded, and the folded coefficients are
\* evaluated over the squared coset.
DoFold ==
    /\ pc = "algebra"
    /\ algebra_case.kind = "fold"
    /\ algebra_case.outcome = "none"
    /\ Len(algebra_case.c) <= algebra_case.coset.order
    /\ algebra_case' =
         IF FoldingPanics(algebra_case.c)
         THEN [algebra_case EXCEPT
                  !.outcome = "panic",
                  !.folded = Fold(CosetFft(algebra_case.coset, algebra_case.c),
                                  algebra_case.r, algebra_case.coset)]
         ELSE [algebra_case EXCEPT
                  !.outcome = "ok",
                  !.folded = Fold(CosetFft(algebra_case.coset, algebra_case.c),
                                  algebra_case.r, algebra_case.coset),
                  !.squared = CosetFft(CosetPow(algebra_case.coset, 2),
                                       Folding(algebra_case.c, algebra_case.r))]
    /\ UNCHANGED <<deal_vars, merkle_case, fft_case, tuple_case, oracle_case, gemini_case>>

\* C24 (fold lands on the squared coset): for every coset D, every coefficient vector c
\* of length 2^k <= |D| and every parameter r, folding D.fft(c) gives exactly
\* D.pow(2).fft(c') where c' is c folded by r.
C24_FoldOnSquaredCoset ==
    (pc = "algebra" /\ algebra_case.kind = "fold" /\ algebra_case.outcome # "none") =>
        /\ algebra_case.outcome = "ok"
        /\ algebra_case.folded = algebra_case.squared

\* C24 as amended: the same for coefficient vectors of at least two coefficients;
\* folding a single coefficient aborts.
C24_FoldAmended ==
    (pc = "algebra" /\ algebra_case.kind = "fold" /\ algebra_case.outcome # "none") =>
        IF Len(algebra_case.c) >= 2
        THEN /\ algebra_case.outcome = "ok"
             /\ algebra_case.folded = algebra_case.squared
             /\ Len(algebra_case.folded) = algebra_case.coset.order \div 2
        ELSE algebra_case.outcome = "panic"

\* A vector of as many coefficients as the largest coset has elements was folded by
\* a parameter other than 0 and 1, and the folded evaluations are not all equal.
C24_Witness ==
    /\ pc = "algebra"
    /\ algebra_case.kind = "fold"
    /\ algebra_case.outcome = "ok"
    /\ algebra_case.coset.order = 2 ^ MaxLogOrder
    /\ algebra_case.coset.shift # 1
    /\ Len(algebra_case.c) = 2 ^ MaxLogOrder
    /\ algebra_case.r \notin {0, 1}
    /\ algebra_case.folded = algebra_case.squared
    /\ \E i, j \in 1..Len(algebra_case.folded) : algebra_case.folded[i] # algebra_case.folded[j]

InitAlgebra ==
    \E case \in MultilinearCases \cup CosetCases \cup SplitCases \cup TransformCases
                \cup PolynomialCases \cup CacheCases
                \cup FoldCases :
        AlgebraDeal(case)

NextAlgebra ==
    \/ DoFolding
    \/ DoEvaluate
    \/ \E k \in 0..MaxExponent : DoCosetPow(k)
    \/ DoSplitN
    \/ DoCosetFft
    \/ DoCosetIfft
    \/ DoPolynomialNew
    \/ DoDegree
    \/ \E index \in 0..(2 ^ MaxLogOrder) : DoElementAt(index)
    \/ DoAllElements
    \/ DoFold

SpecAlgebra == InitAlgebra /\ [][NextAlgebra]_vars

(***************************************************************************)
(* The lazily filled random oracle (src/src/random_oracle.rs,               *)
(* src/src/one2many.rs): oracle_case holds the oracle, the values           *)
(* generate_challenge has returned so far, and the last get_challenge call. *)
(***************************************************************************)
RandomOracleNew == [folding_challenges |-> <<>>, usize_elements |-> <<>>]

\* usize_elements is an Option: <<>> is None, <<list>> is Some(list).
Clear(oracle) == [oracle EXCEPT !.folding_challenges = <<>>, !.usize_elements = <<>>]

GenerateQueries(oracle, list) == [oracle EXCEPT !.usize_elements = <<list>>]

\* folding_challenges[index] is indexed out of bounds.
GetChallengePanics(oracle, index) == index >= Len(oracle.folding_challenges)

GetChallenge(oracle, index) == oracle.folding_challenges[index + 1]

GenerateChallenge(oracle, challenge) ==
    [oracle EXCEPT !.folding_challenges = Append(@, challenge)]

\* How many times generate_challenge is called on one oracle.
MaxGenerated == 4

ChallengeValues == {5, 7}

QueryLists == {<<3>>, <<7, 1>>}

InitOracle ==
    /\ oracle_case = [oracle |-> RandomOracleNew,
                      generated |-> <<>>,
                      got |-> [status |-> "none", index |-> 0, value |-> 0, calls |-> 0]]
    /\ pc = "oracle"
    /\ secret = <<>> /\ dealer = <<>> /\ parties = <<>> /\ query = <<>> /\ subject = -1
    /\ proofs = <<>> /\ tamper = NoTamper /\ result = "none"
    /\ merkle_case = <<>> /\ fft_case = <<>> /\ tuple_case = <<>> /\ algebra_case = <<>> /\ gemini_case = <<>>

DoGenerateChallenge(challenge) ==
    /\ pc = "oracle"
    /\ Len(oracle_case.generated) < MaxGenerated
    /\ oracle_case' = [oracle_case EXCEPT
                         !.oracle = GenerateChallenge(@, challenge),
                         !.generated = Append(@, challenge)]
    /\ UNCHANGED <<deal_vars, merkle_case, fft_case, tuple_case, algebra_case, gemini_case>>

DoGetChallenge(index) ==
    /\ pc = "oracle"
    /\ oracle_case' =
         [oracle_case EXCEPT !.got =
             IF GetChallengePanics(oracle_case.oracle, index)
             THEN [status |-> "panic", index |-> index, value |-> 0,
                   calls |-> Len(oracle_case.generated)]
             ELSE [status |-> "ok", index |-> index,
                   value |-> GetChallenge(oracle_case.oracle, index),
                   calls |-> Len(oracle_case.generated)]]
    /\ UNCHANGED <<deal_vars, merkle_case, fft_case, tuple_case, algebra_case, gemini_case>>

DoGenerateQueries(list) ==
    /\ pc = "oracle"
    /\ oracle_case' = [oracle_case EXCEPT !.oracle = GenerateQueries(@, list)]
    /\ UNCHANGED <<deal_vars, merkle_case, fft_case, tuple_case, algebra_case, gemini_case>>

DoClear ==
    /\ pc = "oracle"
    /\ oracle_case' = [oracle_case EXCEPT !.oracle = Clear(@)]
    /\ UNCHANGED <<deal_vars, merkle_case, fft_case, tuple_case, algebra_case, gemini_case>>

NextOracle ==
    \/ \E challenge \in ChallengeValues : DoGenerateChallenge(challenge)
    \/ \E index \in 0..(MaxGenerated - 1) : DoGetChallenge(index)
    \/ \E list \in QueryLists : DoGenerateQueries(list)
    \/ DoClear

SpecOracle == InitOracle /\ [][NextOracle]_vars

\* C22 (challenge stability): in every state reached through the oracle's operations,
\* get_challenge(i) is defined for every i below the number of generate_challenge
\* calls made so far and is the value the (i+1)-th call returned; a get_challenge
\* call that was made returned that value.
C22_ChallengeStability ==
    pc = "oracle" =>
        /\ \A i \in 0..(Len(oracle_case.generated) - 1) :
              /\ ~GetChallengePanics(oracle_case.oracle, i)
              /\ GetChallenge(oracle_case.oracle, i) = oracle_case.generated[i + 1]
        /\ (oracle_case.got.status # "none" /\ oracle_case.got.index < oracle_case.got.calls) =>
              /\ oracle_case.got.status = "ok"
              /\ oracle_case.got.value = oracle_case.generated[oracle_case.got.index + 1]

(***************************************************************************)
(* Gemini over FRI (src/gemini-fri): one prover and one verifier that run   *)
(* the steps of the crate's own test.  gemini_case holds both sides, the    *)
(* open point, the tuples and the prover's answers to the queries.          *)
(***************************************************************************)
FunctionNew(value, evaluations) ==
    [interpolation |-> InterpolateValueNew(value), evaluations |-> evaluations]

FriProverNew(rounds, interpolate_coset, polynomial, oracle) ==
    [total_round |-> rounds,
     interpolate_cosets |-> interpolate_coset,
     functions |-> <<FunctionNew(CosetFft(interpolate_coset[1], polynomial), <<>>)>>,
     polynomials |-> <<polynomial>>,
     foldings |-> <<>>,
     oracle |-> oracle,
     final_value |-> <<>>]

CommitFirstPolynomial(prover) == Commit(prover.functions[1].interpolation)

FriVerifierNew(rounds, coset, polynomial_commitment, oracle) ==
    [total_round |-> rounds,
     interpolate_cosets |-> coset,
     function_root |-> <<[root |-> [leave_number |-> coset[1].order \div 2,
                                    merkle_root |-> polynomial_commitment],
                          evaluations |-> <<>>]>>,
     folding_root |-> <<>>,
     oracle |-> oracle,
     final_value |-> <<>>,
     open_point |-> <<>>]

RECURSIVE FoldPolynomials(_, _)
FoldPolynomials(polynomials, open_point) ==
    IF open_point = <<>> THEN polynomials
    ELSE FoldPolynomials(
             Append(polynomials, Folding(polynomials[Len(polynomials)], open_point[1])),
             Tail(open_point))

\* FriProver::commit_functions: <<prover, verifier>> after the call.  The open point
\* get_open_point returned has one coordinate per round, as the call asserts.
GeminiCommitFunctions(prover, verifier, open_point) ==
    LET polynomials == FoldPolynomials(prover.polynomials, open_point)
        pushed == [i \in 2..prover.total_round |->
                      FunctionNew(CosetFft(prover.interpolate_cosets[1], polynomials[i]), <<>>)]
    IN <<[prover EXCEPT
             !.polynomials = polynomials,
             !.functions = @ \o [k \in 1..(prover.total_round - 1) |-> pushed[k + 1]]],
         [verifier EXCEPT
             !.function_root = @ \o
                 [k \in 1..(prover.total_round - 1) |->
                     [root |-> [merkle_root |-> Commit(pushed[k + 1].interpolation),
                                leave_number |-> verifier.interpolate_cosets[1].order \div 2],
                      evaluations |-> <<>>]]]>>

\* FriProver::compute_tuples: <<prover, tuples>> after the call.
ComputeTuples(prover) ==
    LET beta == prover.oracle.beta
        tuples == [i \in 1..prover.total_round |->
                      [a |-> EvaluateAsPolynomial(prover.polynomials[i], beta),
                       b |-> EvaluateAsPolynomial(prover.polynomials[i], Neg(beta)),
                       c |-> EvaluateAsPolynomial(prover.polynomials[i + 1], Mul(beta, beta))]]
    IN <<[prover EXCEPT
             !.functions =
                 [i \in 1..Len(prover.functions) |->
                     IF i > Len(tuples) THEN prover.functions[i]
                     ELSE [prover.functions[i] EXCEPT
                              !.evaluations =
                                  IF i = 1
                                  THEN <<<<beta, tuples[1].a>>, <<Neg(beta), tuples[1].b>>>>
                                  ELSE <<<<Mul(beta, beta), tuples[i - 1].c>>,
                                         <<beta, tuples[i].a>>,
                                         <<Neg(beta), tuples[i].b>>>>]]],
         tuples>>

\* field::batch_inverse: the inverse of every element of the vector.
BatchInverse(v) == [j \in 1..Len(v) |-> Inverse(v[j])]

\* initial_interpolation's loops: function i (1-based), its evaluation pair e
\* (0 before the function's own term), the running power acc and the sum res.
RECURSIVE InterpolationLoop(_, _, _, _, _)
InterpolationLoop(prover, i, e, acc, res) ==
    IF i > Len(prover.functions) THEN res
    ELSE LET rlc == prover.oracle.rlc
             interpolation == prover.functions[i].interpolation.value
             evaluations == prover.functions[i].evaluations
         IN IF e = 0
            THEN IF i # 1
                 THEN InterpolationLoop(prover, i, 1, Mul(acc, rlc),
                          [j \in 1..Len(res) |-> Add(res[j], Mul(interpolation[j], acc))])
                 ELSE InterpolationLoop(prover, i, 1, acc, res)
            ELSE IF e > Len(evaluations)
                 THEN InterpolationLoop(prover, i + 1, 0, acc, res)
                 ELSE LET x == evaluations[e][1]
                          y == evaluations[e][2]
                          all_elements == AllElements(prover.interpolate_cosets[1])
                          inv == BatchInverse([j \in 1..Len(all_elements) |->
                                                  Sub(all_elements[j], x)])
                      IN InterpolationLoop(prover, i, e + 1, Mul(acc, rlc),
                             [j \in 1..Len(res) |->
                                 Add(res[j],
                                     Mul(Mul(inv[j], Sub(interpolation[j], y)), acc))])

InitialInterpolation(prover) ==
    InterpolationLoop(prover, 1, 0, prover.oracle.rlc,
                      prover.functions[1].interpolation.value)

GeminiEvaluationNextDomain(prover, round, challenge) ==
    LET coset == prover.interpolate_cosets[round + 1]
        len == coset.order
        function == IF round = 0 THEN InitialInterpolation(prover)
                    ELSE prover.foldings[Len(prover.foldings)].value
    IN [i \in 1..(len \div 2) |->
           FoldPair(function[i], function[i + len \div 2], challenge,
                    ElementInvAt(coset, i - 1))]

RECURSIVE GeminiProveLoop(_, _)
GeminiProveLoop(prover, i) ==
    IF i >= prover.total_round THEN prover
    ELSE \* bound once: TLC would otherwise recompute the vector at every use
         LET next_evaluation ==
                 GeminiEvaluationNextDomain(prover, i, prover.oracle.folding_challenges[i + 1])
         IN GeminiProveLoop(
                IF i < prover.total_round - 1
                THEN [prover EXCEPT !.foldings = Append(@, InterpolateValueNew(next_evaluation))]
                ELSE [prover EXCEPT !.final_value = <<next_evaluation[1]>>],
                i + 1)

GeminiProve(prover) == GeminiProveLoop(prover, 0)

\* FriProver::commit_foldings: <<outcome, verifier>>; set_final_value asserts a
\* value other than zero, and the prover unwraps its own final value.
GeminiCommitFoldings(prover, verifier) ==
    IF prover.final_value = <<>> \/ prover.final_value[1] = 0 THEN <<"panic", verifier>>
    ELSE <<"ok",
           [verifier EXCEPT
               !.folding_root =
                   @ \o [i \in 1..(prover.total_round - 1) |->
                            [leave_number |-> LeaveNum(prover.foldings[i]),
                             merkle_root |-> Commit(prover.foldings[i])]],
               !.final_value = prover.final_value]>>

GeminiSizes(cosets, rounds) == [i \in 1..rounds |-> cosets[i].order]

\* FriProver::query: the folding answers and the answers of every function.
GeminiQuery(prover) ==
    LET sizes == GeminiSizes(prover.interpolate_cosets, prover.total_round)
        idx(i) == RoundIndices(prover.oracle.query_list, sizes, i)
    IN [folding_res |->
            [i \in 1..(prover.total_round - 1) |->
                InterpolateQuery(prover.foldings[i], idx(i))],
        functions_res |->
            [f \in 1..Len(prover.functions) |->
                InterpolateQuery(prover.functions[f].interpolation, idx(0))]]

\* FriVerifier::set_tuples: <<outcome, verifier>>.
GeminiSetTuples(verifier, tuples) ==
    LET set == SetTuples(tuples, verifier.open_point, verifier.oracle.beta)
    IN IF set[1] = "panic" THEN <<"panic", verifier>>
       ELSE <<"ok",
              [verifier EXCEPT
                  !.function_root =
                      [i \in 1..Len(verifier.function_root) |->
                          IF i > Len(tuples) THEN verifier.function_root[i]
                          ELSE [verifier.function_root[i] EXCEPT
                                   !.evaluations = @ \o set[2][i]]]]>>

\* The weight of the term that follows `before` earlier terms.
TermWeight(rlc, before) == Pow(rlc, before)

\* A recombination that gives a function's first pair the function's own power.
GetFoldingValueSharedPower(verifier, function_proofs, index) ==
    LET rlc == verifier.oracle.rlc
        before(f) == IF f = 1 THEN 0
                     ELSE Len(verifier.function_root[f - 1].evaluations) + 1
        offset(f) == LET RECURSIVE Sum(_)
                         Sum(g) == IF g > f THEN 0 ELSE before(g) + Sum(g + 1)
                     IN Sum(1)
        term(f) ==
            LET this_v == function_proofs[f].proof_values[index]
                pairs == verifier.function_root[f].evaluations
                RECURSIVE Pairs(_)
                Pairs(e) ==
                    IF e > Len(pairs) THEN 0
                    ELSE Add(Mul(Mul(TermWeight(rlc, offset(f) + e - 1),
                                     Sub(this_v, pairs[e][2])),
                                 Inverse(Sub(ElementAt(verifier.interpolate_cosets[1], index),
                                             pairs[e][1]))),
                             Pairs(e + 1))
            IN Add(Mul(this_v, TermWeight(rlc, offset(f))), Pairs(1))
        RECURSIVE Functions(_)
        Functions(f) == IF f > Len(function_proofs) THEN 0
                        ELSE Add(term(f), Functions(f + 1))
    IN Functions(1)

\* get_folding_value's loops in round 0: function f (1-based), its pair e (0
\* before the function's own term), the running power tmp_rlc and the sum res.
RECURSIVE RecombineLoop(_, _, _, _, _, _, _)
RecombineLoop(verifier, function_proofs, index, f, e, tmp_rlc, res) ==
    IF f > Len(function_proofs) THEN res
    ELSE LET rlc == verifier.oracle.rlc
             this_v == function_proofs[f].proof_values[index]
             pairs == verifier.function_root[f].evaluations
         IN IF e = 0
            THEN RecombineLoop(verifier, function_proofs, index, f, 1,
                               Mul(tmp_rlc, rlc), Add(res, Mul(this_v, tmp_rlc)))
            ELSE IF e > Len(pairs)
                 THEN RecombineLoop(verifier, function_proofs, index, f + 1, 0, tmp_rlc, res)
                 ELSE RecombineLoop(verifier, function_proofs, index, f, e + 1,
                          Mul(tmp_rlc, rlc),
                          Add(res,
                              Mul(Mul(tmp_rlc, Sub(this_v, pairs[e][2])),
                                  Inverse(Sub(ElementAt(verifier.interpolate_cosets[1], index),
                                              pairs[e][1])))))

GetFoldingValue(verifier, function_proofs, index) ==
    RecombineLoop(verifier, function_proofs, index, 1, 0, 1, 0)

\* The value verify folds at an index of round i (0-based).
GeminiFoldingValue(verifier, folding_proofs, function_proofs, i, index) ==
    IF i = 0 THEN GetFoldingValue(verifier, function_proofs, index)
    ELSE folding_proofs[i].proof_values[index]

\* A lookup of get_folding_value that finds no opened value and panics.
GeminiLookupPanics(folding_proofs, function_proofs, i, index) ==
    IF i = 0 THEN \E f \in 1..Len(function_proofs) :
                      ~HasKey(function_proofs[f].proof_values, index)
    ELSE ~HasKey(folding_proofs[i].proof_values, index)

\* One round of FriVerifier::verify: "panic", "false" or "ok".
GeminiRound(verifier, folding_proofs, function_proofs, i) ==
    LET sizes == GeminiSizes(verifier.interpolate_cosets, verifier.total_round)
        domain_size == sizes[i + 1]
        leaf_indices == RoundIndices(verifier.oracle.query_list, sizes, i)
        challenge == verifier.oracle.folding_challenges[i + 1]
        last == i = verifier.total_round - 1
        panics(j) ==
            \/ GeminiLookupPanics(folding_proofs, function_proofs, i, j)
            \/ GeminiLookupPanics(folding_proofs, function_proofs, i, j + domain_size \div 2)
        v(j) == FoldPair(
                    GeminiFoldingValue(verifier, folding_proofs, function_proofs, i, j),
                    GeminiFoldingValue(verifier, folding_proofs, function_proofs, i,
                                       j + domain_size \div 2),
                    challenge, ElementInvAt(verifier.interpolate_cosets[i + 1], j))
        stops(j) ==
            \/ panics(j)
            \/ IF last THEN verifier.final_value = <<>> \/ v(j) # verifier.final_value[1]
               ELSE \/ ~HasKey(folding_proofs[i + 1].proof_values, j)
                    \/ v(j) # folding_proofs[i + 1].proof_values[j]
        stopped == {k \in 1..Len(leaf_indices) : stops(leaf_indices[k])}
        first == leaf_indices[CHOOSE k \in stopped : \A m \in stopped : k <= m]
    IN IF \/ (i = 0 /\ \E f \in 1..Len(function_proofs) :
                  VerifyMerkleTreePanics(function_proofs[f], leaf_indices,
                                         verifier.function_root[f].root))
          \/ (i > 0 /\ VerifyMerkleTreePanics(folding_proofs[i], leaf_indices,
                                              verifier.folding_root[i]))
       THEN "panic"
       ELSE IF stopped = {} THEN "ok"
       ELSE IF \/ panics(first)
               \/ (last /\ verifier.final_value = <<>>)
               \/ (~last /\ ~HasKey(folding_proofs[i + 1].proof_values, first))
       THEN "panic"
       ELSE "false"

RECURSIVE GeminiVerifyLoop(_, _, _, _)
GeminiVerifyLoop(verifier, folding_proofs, function_proofs, i) ==
    IF i >= verifier.total_round THEN "true"
    ELSE LET round == GeminiRound(verifier, folding_proofs, function_proofs, i)
         IN IF round = "ok"
            THEN GeminiVerifyLoop(verifier, folding_proofs, function_proofs, i + 1)
            ELSE round

GeminiVerify(verifier, folding_proofs, function_proofs) ==
    GeminiVerifyLoop(verifier, folding_proofs, function_proofs, 0)

variable_num == 3

GeminiShifts == {ROOT_OF_UNITY}

\* Points off the interpolation coset, as a random beta is but for a negligible chance.
GeminiBetas == {9, 27}

GeminiRlcs == {1, 2, 10}

GeminiPolynomials ==
    {[i \in 1..(2 ^ variable_num) |-> (k * i + 1) % MOD] : k \in {0, 3, 50}}

GeminiOpenPoints == {[i \in 1..variable_num |-> (k + i) % MOD] : k \in {0, 6}}

GeminiChallenges == {[i \in 1..variable_num |-> (k * i + 2) % MOD] : k \in {0, 5}}

GeminiQueryLists == {<<1>>, <<0, 5, 6>>, <<13, 2, 10, 7>>}

GeminiCosets(shift) ==
    CosetLadder(<<CosetNew(2 ^ (variable_num + code_rate), shift)>>, variable_num)

InitGemini ==
    /\ \E polynomial \in GeminiPolynomials, open_point \in GeminiOpenPoints,
          challenges \in GeminiChallenges, query_list \in GeminiQueryLists,
          beta \in GeminiBetas, rlc \in GeminiRlcs, shift \in GeminiShifts :
       \E interpolate_cosets \in {GeminiCosets(shift)} :
       \E oracle \in {[folding_challenges |-> challenges, query_list |-> query_list,
                       beta |-> beta, rlc |-> rlc]} :
       \E prover \in {FriProverNew(variable_num, interpolate_cosets, polynomial, oracle)} :
       \E verifier \in {FriVerifierNew(variable_num, interpolate_cosets,
                                       CommitFirstPolynomial(prover), oracle)} :
          gemini_case = [stage |-> "opened",
                         prover |-> prover,
                         verifier |-> [verifier EXCEPT !.open_point = open_point],
                         open_point |-> open_point,
                         tuples |-> <<>>,
                         folding_proofs |-> <<>>,
                         function_proofs |-> <<>>,
                         result |-> "none"]
    /\ pc = "gemini"
    /\ secret = <<>> /\ dealer = <<>> /\ parties = <<>> /\ query = <<>> /\ subject = -1
    /\ proofs = <<>> /\ tamper = NoTamper /\ result = "none"
    /\ merkle_case = <<>> /\ fft_case = <<>> /\ tuple_case = <<>> /\ algebra_case = <<>>
    /\ oracle_case = <<>>

gemini_rest == <<deal_vars, merkle_case, fft_case, tuple_case, algebra_case, oracle_case>>

DoGeminiCommitFunctions ==
    /\ pc = "gemini" /\ gemini_case.stage = "opened"
    /\ \E after \in {GeminiCommitFunctions(gemini_case.prover, gemini_case.verifier,
                                           gemini_case.open_point)} :
          gemini_case' = [gemini_case EXCEPT !.stage = "functions_committed",
                                             !.prover = after[1],
                                             !.verifier = after[2]]
    /\ UNCHANGED gemini_rest

DoComputeTuples ==
    /\ pc = "gemini" /\ gemini_case.stage = "functions_committed"
    /\ \E after \in {ComputeTuples(gemini_case.prover)} :
          gemini_case' = [gemini_case EXCEPT !.stage = "tuples_computed",
                                             !.prover = after[1],
                                             !.tuples = after[2]]
    /\ UNCHANGED gemini_rest

DoGeminiProve ==
    /\ pc = "gemini" /\ gemini_case.stage = "tuples_computed"
    /\ \E prover \in {GeminiProve(gemini_case.prover)} :
          gemini_case' = [gemini_case EXCEPT !.stage = "proved", !.prover = prover]
    /\ UNCHANGED gemini_rest

DoGeminiCommitFoldings ==
    /\ pc = "gemini" /\ gemini_case.stage = "proved"
    /\ \E after \in {GeminiCommitFoldings(gemini_case.prover, gemini_case.verifier)} :
          gemini_case' = [gemini_case EXCEPT
                             !.stage = IF after[1] = "panic" THEN "aborted"
                                       ELSE "foldings_committed",
                             !.result = IF after[1] = "panic" THEN "panic" ELSE @,
                             !.verifier = after[2]]
    /\ UNCHANGED gemini_rest

DoGeminiQuery ==
    /\ pc = "gemini" /\ gemini_case.stage = "foldings_committed"
    /\ \E answers \in {GeminiQuery(gemini_case.prover)} :
          gemini_case' = [gemini_case EXCEPT !.stage = "queried",
                                             !.folding_proofs = answers.folding_res,
                                             !.function_proofs = answers.functions_res]
    /\ UNCHANGED gemini_rest

DoGeminiSetTuples ==
    /\ pc = "gemini" /\ gemini_case.stage = "queried"
    /\ \E after \in {GeminiSetTuples(gemini_case.verifier, gemini_case.tuples)} :
          gemini_case' = [gemini_case EXCEPT
                             !.stage = IF after[1] = "panic" THEN "aborted" ELSE "tuples_set",
                             !.result = IF after[1] = "panic" THEN "panic" ELSE @,
                             !.verifier = after[2]]
    /\ UNCHANGED gemini_rest

DoGeminiVerify ==
    /\ pc = "gemini" /\ gemini_case.stage = "tuples_set"
    /\ gemini_case' = [gemini_case EXCEPT
                          !.stage = "verified",
                          !.result = GeminiVerify(gemini_case.verifier,
                                                  gemini_case.folding_proofs,
                                                  gemini_case.function_proofs)]
    /\ UNCHANGED gemini_rest

NextGemini ==
    \/ DoGeminiCommitFunctions
    \/ DoComputeTuples
    \/ DoGeminiProve
    \/ DoGeminiCommitFoldings
    \/ DoGeminiQuery
    \/ DoGeminiSetTuples
    \/ DoGeminiVerify

SpecGemini == InitGemini /\ [][NextGemini]_vars

\* The indices verify folds in round 0: each queried index and its mirror.
GeminiQueried ==
    LET sizes == GeminiSizes(gemini_case.verifier.interpolate_cosets,
                             gemini_case.verifier.total_round)
        leaf_indices == RoundIndices(gemini_case.verifier.oracle.query_list, sizes, 0)
    IN SeqRange(leaf_indices) \cup {j + sizes[1] \div 2 : j \in SeqRange(leaf_indices)}

\* C30: once the prover has answered the queries and the verifier has recorded
\* the tuples, the value the verifier recombines at every index it folds in round
\* 0 (a queried index or its mirror) from the opened function values and the
\* recorded pairs equals the prover's initial_interpolation value at that index.
C30_CombinationAgreement ==
    (pc = "gemini" /\ gemini_case.stage \in {"tuples_set", "verified"}) =>
        \A function \in {InitialInterpolation(gemini_case.prover)} :
            \A index \in GeminiQueried :
                GetFoldingValue(gemini_case.verifier, gemini_case.function_proofs, index)
                    = function[index + 1]

\* C30 witness: a verified run with several functions, three pairs on a later
\* function, a combination challenge other than 0 and 1, and several queried indices.
C30_Witness ==
    /\ pc = "gemini" /\ gemini_case.stage = "verified" /\ gemini_case.result = "true"
    /\ gemini_case.verifier.oracle.rlc \notin {0, 1}
    /\ Len(gemini_case.function_proofs) >= 2
    /\ Len(gemini_case.verifier.function_root[2].evaluations) = 3
    /\ Len(gemini_case.prover.functions[2].evaluations) = 3
    /\ Cardinality(GeminiQueried) >= 6

=============================================================================
